---- MODULE Spec2Model ----
(***************************************************************************)
(* Model of wpcli's dynamic command-tree builder                           *)
(* (internal/plugins/commands.go), of the flag handler sets                *)
(* (internal/flags, internal/plugins/flag_handlers.go) and of the way a    *)
(* built command is dispatched by cobra/pflag; of the managers of the      *)
(* plugin registry (plugins.ConfigManager) and of its repository           *)
(* (git.RepoManager); and of the built-in list command.                    *)
(*                                                                         *)
(* A Go string is modelled as a sequence of one-character strings, so that *)
(* concatenation, prefixes, splitting and byte-wise comparison are         *)
(* computed the way the code computes them.                                *)
(***************************************************************************)
EXTENDS Integers, Sequences, FiniteSets, TLC

VARIABLES
    pc,                 \* position of GetPluginCommands
    registry,           \* config.Plugins, as parsed from plugins.yml
    idx,                \* index of the plugin the range loop is at
    latestVersion,      \* versions[0] of the current plugin
    pluginConfig,       \* the manifest loaded for the current plugin
    subcommandGroups,   \* namespace -> index of its parent in rootCommands
    subcommandVersions, \* namespace -> version recorded with the parent
    subcommandPlugins,  \* namespace -> plugin name recorded with the parent
    rootCommands,       \* the forest under construction
    ret,                \* what GetPluginCommands returned
    loads,              \* the manifest paths read so far, in order
    cmdConfig,          \* invocation model: the manifest command being built
    built,              \* invocation model: the cobra command built from it
    inv,                \* invocation model: the last invocation and its outcome
    hflag,              \* handler model: the flag given to the handler sets
    hargs,              \* handler model: the other arguments of the call
    hres,               \* handler model: what the handler sets answered
    host,               \* host model: the root command after package cmd's init
    dispatch,           \* host model: the command line given to Execute and its outcome
    cm,                 \* manager model: the ConfigManager
    rm,                 \* manager model: the RepoManager
    repoDir,            \* manager model: what is at the RepoManager's repoPath
    calls               \* manager model: the calls made so far and what they returned

vars == <<pc, registry, idx, latestVersion, pluginConfig, subcommandGroups,
          subcommandVersions, subcommandPlugins, rootCommands, ret, loads,
          cmdConfig, built, inv, hflag, hargs, hres, host, dispatch,
          cm, rm, repoDir, calls>>

buildVars == <<pc, registry, idx, latestVersion, pluginConfig, subcommandGroups,
               subcommandVersions, subcommandPlugins, rootCommands, ret, loads>>

invokeVars == <<cmdConfig, built, inv>>

handlerVars == <<hflag, hargs, hres>>

hostVars == <<host, dispatch>>

managerVars == <<cm, rm, repoDir, calls>>

----------------------------------------------------------------------------
(* Bounds *)

MaxPlugins == 2
MaxVersions == 3

----------------------------------------------------------------------------
(* Strings *)

\* The characters the model uses, in ascending byte order.
AsciiOrder ==
    <<"\n", " ", "(", ")", ",", "-", ".", "0", "1", "2", "3", "4", "5", "6",
      "7", "8", "9", ":", "<", "=", ">", "A", "C", "E", "P", "V", "[", "]",
      "a", "b", "c", "d", "e", "f", "g", "h", "i", "j", "k", "l", "m", "n",
      "o", "p", "q", "r", "s", "t", "u", "v", "w", "x", "y", "z">>

Ord(c) == CHOOSE i \in DOMAIN AsciiOrder : AsciiOrder[i] = c

\* Go's a < b on strings: byte-wise, a proper prefix is smaller.
RECURSIVE StrLess(_, _)
StrLess(a, b) ==
    IF b = <<>> THEN FALSE
    ELSE IF a = <<>> THEN TRUE
    ELSE IF Ord(Head(a)) < Ord(Head(b)) THEN TRUE
    ELSE IF Ord(Head(a)) > Ord(Head(b)) THEN FALSE
    ELSE StrLess(Tail(a), Tail(b))

HasPrefix(s, p) == Len(s) >= Len(p) /\ SubSeq(s, 1, Len(p)) = p

HasSuffix(s, p) == Len(s) >= Len(p) /\ SubSeq(s, Len(s) - Len(p) + 1, Len(s)) = p

\* strings.Join(parts, sep)
RECURSIVE Join(_, _)
Join(parts, sep) ==
    IF parts = <<>> THEN <<>>
    ELSE IF Len(parts) = 1 THEN parts[1]
    ELSE parts[1] \o sep \o Join(Tail(parts), sep)

\* The decimal text of a small natural number (fmt's %d).
Itoa(n) == <<AsciiOrder[Ord("0") + n]>>

\* A Go error value: nil, or a message with the error it wraps (%w), if any.
NoError == [nil |-> TRUE, msg |-> <<>>, wraps |-> <<>>]

Errorf(msg, cause) == [nil |-> FALSE, msg |-> msg, wraps |-> cause]

EmptyMap == [k \in {} |-> <<>>]

\* m[k] = v on a Go map
MapSet(m, k, v) == [x \in DOMAIN m \cup {k} |-> IF x = k THEN v ELSE m[x]]

----------------------------------------------------------------------------
(* Latest-version selection *)

\* The less function given to sort.Slice: versions[i].Version > versions[j].Version
versionLess_ascending(a, b) == StrLess(a.Version, b.Version)

versionLess(a, b) == StrLess(b.Version, a.Version)

SeqPermutations(s) ==
    { [i \in 1..Len(s) |-> s[f[i]]] :
        f \in { g \in [1..Len(s) -> 1..Len(s)] :
                  \A i, j \in 1..Len(s) : i # j => g[i] # g[j] } }

\* What sort.Slice may leave in the copy: a permutation in which no element
\* is less than one that precedes it.
SortSlice(s) ==
    { p \in SeqPermutations(s) :
        \A i, j \in 1..Len(p) : i < j => ~versionLess(p[j], p[i]) }

\* filepath.Join(filepath.Dir(configPath), uuid, version, conf)
pluginConfigPath(plugin, v) == <<plugin.UUID, v.Version, v.Conf>>

----------------------------------------------------------------------------
(* Building one command: the body of the loop over pluginConfig.Commands *)

\* The count of declared arguments marked required.
requiredArgs_all(args) == Len(args)

RECURSIVE requiredArgs(_)
requiredArgs(args) ==
    IF args = <<>> THEN 0
    ELSE (IF Head(args).Required THEN 1 ELSE 0) + requiredArgs(Tail(args))

\* The usage pattern with a leading "wpcli " removed.
usage(cmdConfigCopy) ==
    IF HasPrefix(cmdConfigCopy.Usage, <<"w","p","c","l","i"," ">>)
    THEN SubSeq(cmdConfigCopy.Usage, 7, Len(cmdConfigCopy.Usage))
    ELSE cmdConfigCopy.Usage

\* cobra's Command.Name(): Use up to its first space.
RECURSIVE Name(_)
Name(use) ==
    IF use = <<>> \/ Head(use) = " " THEN <<>>
    ELSE <<Head(use)>> \o Name(Tail(use))

\* strings.Fields restricted to the space character.
RECURSIVE Fields(_)
Fields(s) ==
    IF s = <<>> THEN <<>>
    ELSE IF Head(s) = " " THEN Fields(Tail(s))
    ELSE LET word == Name(s)
         IN  <<word>> \o Fields(SubSeq(s, Len(word) + 1, Len(s)))

\* cmd.Long after the loop over the declared arguments.
RECURSIVE AddArguments(_, _)
AddArguments(long, args) ==
    IF args = <<>> THEN long
    ELSE AddArguments(
            long \o <<"\n","\n","A","r","g","u","m","e","n","t","s",":","\n"," "," ">> \o Head(args).Name \o <<" ","(">>
                 \o Head(args).Type \o <<")"," ","-"," ">> \o Head(args).Description.EN,
            Tail(args))

RECURSIVE ExampleLines(_)
ExampleLines(examples) ==
    IF examples = <<>> THEN <<>>
    ELSE <<" "," ">> \o Head(examples).Command \o <<"\n">> \o ExampleLines(Tail(examples))

AddExamples(long, examples) ==
    IF Len(examples) > 0
    THEN long \o <<"\n","\n","E","x","a","m","p","l","e","s",":","\n">> \o ExampleLines(examples)
    ELSE long

\* The cobra.Command literal of a manifest command, with its arguments and
\* examples added. requiredArgs and cmdName are what its closures capture.
NewCommand(cmdConfigCopy) ==
    [ Use          |-> usage(cmdConfigCopy),
      Short        |-> cmdConfigCopy.Description.EN,
      Long         |-> AddExamples(
                          AddArguments(cmdConfigCopy.Description.EN,
                                       cmdConfigCopy.Args),
                          cmdConfigCopy.Examples),
      Runnable     |-> TRUE,
      requiredArgs |-> requiredArgs(cmdConfigCopy.Args),
      cmdName      |-> cmdConfigCopy.Name,
      flags        |-> <<>>,
      required     |-> {},
      PreRunE      |-> "none",
      children     |-> <<>> ]

flagName(flag) ==
    IF Len(flag.Name) > 2 /\ SubSeq(flag.Name, 1, 2) = <<"-","-">>
    THEN SubSeq(flag.Name, 3, Len(flag.Name))
    ELSE flag.Name

shorthand(flag) ==
    IF flag.Shorthand # <<>> /\ Len(flag.Shorthand) > 1 /\ Head(flag.Shorthand) = "-"
    THEN Tail(flag.Shorthand)
    ELSE flag.Shorthand

HasFlag(cmd, name) == \E i \in DOMAIN cmd.flags : cmd.flags[i].Name = name

\* pflag's FlagSet.AddFlag refuses (panics on) a redefined name, a shorthand
\* longer than one character and a shorthand already in use.
PflagRefuses(cmd, name, short) ==
    \/ HasFlag(cmd, name)
    \/ Len(short) > 1
    \/ short # <<>> /\ \E i \in DOMAIN cmd.flags : cmd.flags[i].Shorthand = short

\* cmd.Flags().String / StringP / Bool / BoolP
DefineFlag(cmd, name, short, type, default) ==
    [cmd EXCEPT !.flags = Append(@, [Name |-> name, Shorthand |-> short,
                                      Type |-> type, Default |-> default])]

\* The validation the builder attaches: only to a command named "list" and
\* its string flag "format", against a fixed set of formats.
AttachPreRunE(cmd, name) ==
    IF Name(cmd.Use) = <<"l","i","s","t">> /\ name = <<"f","o","r","m","a","t">>
    THEN [cmd EXCEPT !.PreRunE = "format"]
    ELSE cmd

\* One iteration of the loop over cmdConfigCopy.Flags.
AddFlag(cmd, flag) ==
    LET name  == flagName(flag)
        short == shorthand(flag)
        typed == flag.Type = <<"s","t","r","i","n","g">> \/ flag.Type = <<"b","o","o","l">>
        defined ==
            IF flag.Type = <<"s","t","r","i","n","g">>
            THEN AttachPreRunE(DefineFlag(cmd, name, short, "string", flag.Default), name)
            ELSE IF flag.Type = <<"b","o","o","l">>
            THEN DefineFlag(cmd, name, short, "bool",
                            IF flag.Default = <<"t","r","u","e">> THEN <<"t","r","u","e">> ELSE <<"f","a","l","s","e">>)
            ELSE cmd
    IN  IF typed /\ PflagRefuses(cmd, name, short)
        THEN [status |-> "panic", cmd |-> cmd, err |-> NoError]
        ELSE IF flag.Required /\ ~HasFlag(defined, name)
        THEN [status |-> "error", cmd |-> defined,
              err |-> Errorf(<<"f","a","i","l","e","d"," ","t","o"," ","m","a","r","k"," ","f","l","a","g"," ">> \o name \o <<" ","a","s"," ","r","e","q","u","i","r","e","d">>,
                             Errorf(<<"n","o"," ","s","u","c","h"," ","f","l","a","g"," ","-">> \o name, <<>>))]
        ELSE [status |-> "ok",
              cmd |-> IF flag.Required
                      THEN [defined EXCEPT !.required = @ \cup {name}]
                      ELSE defined,
              err |-> NoError]

RECURSIVE AddFlags(_, _)
AddFlags(cmd, flags) ==
    IF flags = <<>> THEN [status |-> "ok", cmd |-> cmd, err |-> NoError]
    ELSE LET r == AddFlag(cmd, Head(flags))
         IN  IF r.status # "ok" THEN r ELSE AddFlags(r.cmd, Tail(flags))

FromPlugin(plugin, latest) ==
    <<" ","(","f","r","o","m"," ">> \o plugin.Name \o <<" ","v">> \o latest.Version \o <<")">>

PluginAndVersion(plugin, latest) ==
    <<"\n","\n","P","l","u","g","i","n",":"," ">> \o plugin.Name \o <<"\n","V","e","r","s","i","o","n",":"," ">> \o latest.Version

\* The description annotations made before the command joins its parent.
Annotate(cmd, plugin, latest, hasParent) ==
    IF hasParent
    THEN [cmd EXCEPT !.Short = @ \o FromPlugin(plugin, latest)]
    ELSE [cmd EXCEPT !.Short = @ \o FromPlugin(plugin, latest),
                     !.Long = @ \o PluginAndVersion(plugin, latest)]

BuildCommand(cmdConfigCopy, plugin, latest, hasParent) ==
    LET r == AddFlags(NewCommand(cmdConfigCopy), cmdConfigCopy.Flags)
    IN  IF r.status = "ok"
        THEN [r EXCEPT !.cmd = Annotate(r.cmd, plugin, latest, hasParent)]
        ELSE r

\* The parent command created for a namespace by the plugin that declares it
\* first.
ParentCommand(plugin, latest) ==
    [ Use          |-> plugin.Subcommand,
      Short        |-> <<"C","o","m","m","a","n","d","s"," ","f","o","r"," ">> \o plugin.Subcommand \o <<" ","p","l","u","g","i","n","s">>
                         \o FromPlugin(plugin, latest),
      Long         |-> <<"C","o","m","m","a","n","d","s"," ","f","o","r"," ">> \o plugin.Subcommand
                         \o <<" ","p","l","u","g","i","n","s","\n","\n","V","e","r","s","i","o","n",":"," ">> \o latest.Version
                         \o <<"\n","\n","P","l","u","g","i","n",":"," ">> \o plugin.Name,
      Runnable     |-> FALSE,
      requiredArgs |-> 0,
      cmdName      |-> <<>>,
      flags        |-> <<>>,
      required     |-> {},
      PreRunE      |-> "none",
      children     |-> <<>> ]

\* The loop over pluginConfig.Commands: each built command joins the parent
\* (parentIdx > 0) or the forest; a failed flag registration ends the loop.
RECURSIVE CommandsLoop_flat(_, _, _, _, _)
CommandsLoop_flat(roots, parentIdx, plugin, latest, cmds) ==
    IF cmds = <<>> THEN [status |-> "ok", roots |-> roots, err |-> NoError]
    ELSE LET r == BuildCommand(Head(cmds), plugin, latest, parentIdx > 0)
         IN  IF r.status # "ok"
             THEN [status |-> r.status, roots |-> roots, err |-> r.err]
             ELSE CommandsLoop_flat(Append(roots, r.cmd), parentIdx, plugin, latest,
                                    Tail(cmds))

RECURSIVE CommandsLoop(_, _, _, _, _)
CommandsLoop(roots, parentIdx, plugin, latest, cmds) ==
    IF cmds = <<>> THEN [status |-> "ok", roots |-> roots, err |-> NoError]
    ELSE LET r == BuildCommand(Head(cmds), plugin, latest, parentIdx > 0)
         IN  IF r.status # "ok"
             THEN [status |-> r.status, roots |-> roots, err |-> r.err]
             ELSE CommandsLoop(
                     IF parentIdx > 0
                     THEN [roots EXCEPT ![parentIdx].children = Append(@, r.cmd)]
                     ELSE Append(roots, r.cmd),
                     parentIdx, plugin, latest, Tail(cmds))

----------------------------------------------------------------------------
(* The registry and the manifests the model is run on *)

Min(a, b) == IF a < b THEN a ELSE b

Description(en) == [IT |-> <<>>, EN |-> en, ES |-> <<>>]

Arg(name, required) ==
    [Name |-> name, Type |-> <<"s","t","r","i","n","g">>, Description |-> Description(<<"a">>),
     Required |-> required]

\* A flag entry of a manifest document. valid_values is a key of the
\* document; the Flags struct of PluginCommandConfig has no field for it.
ManifestFlag(name, short, type, required, default, validValues) ==
    [Name |-> name, Shorthand |-> short, Type |-> type,
     Description |-> Description(<<"f">>), Required |-> required,
     Default |-> default, valid_values |-> validValues]

Command(name, use, args, flags) ==
    [Name |-> name, Description |-> Description(<<"d">>), Usage |-> use,
     Examples |-> <<>>, Args |-> args, Flags |-> flags]

InstallConfig ==
    Command(<<"i","n","s","t","a","l","l">>, <<"w","p","c","l","i"," ","i","n","s","t","a","l","l"," ","<","p","a","c","k","a","g","e",">">>,
            <<Arg(<<"p","a","c","k","a","g","e">>, TRUE)>>,
            <<ManifestFlag(<<"-","-","v","e","r","s","i","o","n">>, <<"-","v">>, <<"s","t","r","i","n","g">>, FALSE, <<>>, <<>>),
              ManifestFlag(<<"-","-","f","o","r","c","e">>, <<"-","f">>, <<"b","o","o","l">>, FALSE, <<>>, <<>>)>>)

RemoveConfig ==
    Command(<<"r","e","m","o","v","e">>, <<"w","p","c","l","i"," ","r","e","m","o","v","e"," ","<","p","a","c","k","a","g","e",">">>,
            <<Arg(<<"p","a","c","k","a","g","e">>, TRUE)>>,
            <<ManifestFlag(<<"-","-","p","u","r","g","e">>, <<>>, <<"b","o","o","l">>, FALSE, <<>>, <<>>)>>)

ListConfig ==
    Command(<<"l","i","s","t">>, <<"w","p","c","l","i"," ","l","i","s","t">>, <<>>,
            <<ManifestFlag(<<"-","-","a","l","l">>, <<"-","a">>, <<"b","o","o","l">>, FALSE, <<>>, <<>>),
              ManifestFlag(<<"-","-","f","o","r","m","a","t">>, <<>>, <<"s","t","r","i","n","g">>, FALSE, <<"t","a","b","l","e">>,
                           <<<<"j","s","o","n">>, <<"y","a","m","l">>, <<"t","a","b","l","e">>>>)>>)

GreetConfig ==
    Command(<<"g","r","e","e","t">>, <<"w","p","c","l","i"," ","g","r","e","e","t"," ","[","n","a","m","e","]">>,
            <<Arg(<<"n","a","m","e">>, FALSE)>>,
            <<ManifestFlag(<<"-","-","l","a","n","g","u","a","g","e">>, <<"-","l">>, <<"s","t","r","i","n","g">>, FALSE, <<"e","n">>,
                           <<<<"e","n">>, <<"i","t">>, <<"e","s">>>>),
              ManifestFlag(<<"-","-","f","o","r","m","a","l">>, <<>>, <<"b","o","o","l">>, FALSE, <<>>, <<>>)>>)

\* A command whose usage starts with the token another command's starts with.
UninstallConfig ==
    Command(<<"u","n","i","n","s","t","a","l","l">>, <<"w","p","c","l","i"," ","r","e","m","o","v","e"," ","<","p","a","c","k","a","g","e",">">>,
            <<Arg(<<"p","a","c","k","a","g","e">>, TRUE)>>, <<>>)

\* A command whose manifest entry has no usage.
BlankConfig == Command(<<"b","l","a","n","k">>, <<>>, <<>>, <<>>)

\* The plugins a registry is drawn from, each with the manifest its
\* repository directory holds.
PluginUniverse ==
    << [Name |-> <<"a","l","p","h","a">>, UUID |-> <<"u","1">>, Commands |-> <<InstallConfig, RemoveConfig>>],
       [Name |-> <<"b","e","t","a">>,  UUID |-> <<"u","2">>, Commands |-> <<ListConfig, UninstallConfig>>],
       [Name |-> <<"g","a","m","m","a">>, UUID |-> <<"u","3">>, Commands |-> <<GreetConfig>>] >>

ManifestAt(uuid) ==
    LET i == CHOOSE k \in DOMAIN PluginUniverse : PluginUniverse[k].UUID = uuid
    IN  [Commands |-> PluginUniverse[i].Commands]

\* The manifests a plugin's directory may hold: the one above, one
\* without commands, and for the second plugin one whose only command has
\* no usage.
ManifestsAt(uuid) ==
    {ManifestAt(uuid), [Commands |-> <<>>]}
        \cup (IF uuid = PluginUniverse[2].UUID THEN {[Commands |-> <<BlankConfig>>]}
              ELSE {})

\* The version records a plugin's list is drawn from.
VersionUniverse ==
    << [Version |-> <<"1",".","0">>,  Conf |-> <<"a",".","y","m","l">>],
       [Version |-> <<"2",".","0">>,  Conf |-> <<"b",".","y","m","l">>],
       [Version |-> <<"1","0",".","0">>, Conf |-> <<"c",".","y","m","l">>] >>

\* The first n records of the universe, in every order, for every n up to
\* the bound: the empty list, <<1.0>>, both orders of 1.0 and 2.0, and the
\* six orders of 1.0, 2.0 and 10.0.
VersionLists ==
    UNION { SeqPermutations(SubSeq(VersionUniverse, 1, n)) :
            n \in 0..Min(MaxVersions, Len(VersionUniverse)) }

Namespaces == { <<>>, <<"p","k","g">> }

\* The registry of n plugins with the given version lists and namespaces.
Registry(n, v, s) ==
    [i \in 1..n |->
        [Name |-> PluginUniverse[i].Name, UUID |-> PluginUniverse[i].UUID,
         Versions |-> v[i], Subcommand |-> s[i]]]

----------------------------------------------------------------------------
(* GetPluginCommands *)

NoVersion == [Version |-> <<>>, Conf |-> <<>>]

NoManifest == [Commands |-> <<>>]

NotReturned == [returned |-> FALSE, commands |-> <<>>, err |-> NoError]

Returned(commands, err) == [returned |-> TRUE, commands |-> commands, err |-> err]

InvokeIdle ==
    /\ cmdConfig = Command(<<>>, <<>>, <<>>, <<>>)
    /\ built = [status |-> "idle"]
    /\ inv = [done |-> FALSE]

NoFlag == [Type |-> <<>>, Default |-> <<>>, ValidValues |-> <<>>]

NotResolved ==
    [done |-> FALSE, GetHandler |-> "nil", ParseFlagType |-> <<>>,
     GetFlagHandler |-> [handler |-> "nil", err |-> NoError]]

NoArgs == [value |-> <<>>, lang |-> <<>>]

HandlersIdle ==
    /\ hflag = NoFlag
    /\ hargs = NoArgs
    /\ hres = NotResolved

NotDispatched ==
    [done |-> FALSE, argv |-> <<>>, found |-> <<>>, exit |-> 0, ran |-> "none",
     summary |-> <<>>, err |-> NoError]

HostIdle ==
    /\ host = [pc |-> "idle", commands |-> <<>>, warning |-> <<>>, err |-> NoError]
    /\ dispatch = NotDispatched

\* A nil *PluginConfig.
NilConfig == [nil |-> TRUE, Plugins |-> <<>>, Settings |-> [DefaultLanguage |-> <<>>]]

ManagersIdle ==
    /\ cm = [config |-> NilConfig]
    /\ rm = [repo |-> "nil"]
    /\ repoDir = [holds |-> "nothing", pulls |-> 0]
    /\ calls = <<>>

Init ==
    /\ ManagersIdle
    /\ HandlersIdle
    /\ HostIdle
    /\ pc = "start"
    /\ \E n \in 0..Min(MaxPlugins, Len(PluginUniverse)) :
          \E v \in [1..n -> VersionLists], s \in [1..n -> Namespaces] :
             registry = Registry(n, v, s)
    /\ idx = 0
    /\ latestVersion = NoVersion
    /\ pluginConfig = NoManifest
    /\ subcommandGroups = EmptyMap
    /\ subcommandVersions = EmptyMap
    /\ subcommandPlugins = EmptyMap
    /\ rootCommands = <<>>
    /\ ret = NotReturned
    /\ loads = <<>>
    /\ InvokeIdle

\* os.ReadFile and yaml.Unmarshal of plugins.yml.
ReadRegistry ==
    /\ pc = "start"
    /\ \E outcome \in {"ok", "unreadable", "malformed"} :
          IF outcome = "ok"
          THEN /\ pc' = IF registry = <<>> THEN "return" ELSE "select"
               /\ idx' = 1
               /\ ret' = ret
          ELSE /\ pc' = "done"
               /\ idx' = idx
               /\ ret' = Returned(<<>>,
                            Errorf(IF outcome = "unreadable"
                                   THEN <<"f","a","i","l","e","d"," ","t","o"," ","r","e","a","d"," ","p","l","u","g","i","n","s",".","y","m","l">>
                                   ELSE <<"f","a","i","l","e","d"," ","t","o"," ","p","a","r","s","e"," ","p","l","u","g","i","n","s",".","y","m","l">>,
                                   Errorf(<<"i","o">>, <<>>)))
    /\ UNCHANGED <<registry, latestVersion, pluginConfig, subcommandGroups,
                   subcommandVersions, subcommandPlugins, rootCommands, loads>>
    /\ UNCHANGED invokeVars
    /\ UNCHANGED handlerVars
    /\ UNCHANGED managerVars
    /\ UNCHANGED hostVars

\* versions := make([]Version, len(plugin.Versions)); copy(versions,
\* plugin.Versions): what plugin.Versions holds once sort.Slice has left
\* sorted in versions. The copy has a backing array of its own.
VersionsAfterSort_shared(plugin, sorted) == sorted

VersionsAfterSort(plugin, sorted) == plugin.Versions

\* The copy of plugin.Versions is sorted and its first element taken; with
\* no element the index expression faults.
SelectLatest ==
    /\ pc = "select"
    /\ LET plugin == registry[idx]
       IN  \E versions \in SortSlice(plugin.Versions) :
              /\ registry' = [registry EXCEPT
                                 ![idx].Versions = VersionsAfterSort(plugin, versions)]
              /\ IF Len(versions) = 0
                 THEN /\ pc' = "panic"
                      /\ latestVersion' = latestVersion
                 ELSE /\ latestVersion' = versions[1]
                      /\ pc' = "load"
    /\ UNCHANGED <<idx, pluginConfig, subcommandGroups,
                   subcommandVersions, subcommandPlugins, rootCommands, ret, loads>>
    /\ UNCHANGED invokeVars
    /\ UNCHANGED handlerVars
    /\ UNCHANGED managerVars
    /\ UNCHANGED hostVars

\* The error loadPluginConfig returns for a file it cannot read or parse.
loadPluginConfigError(outcome) ==
    Errorf(IF outcome = "unreadable"
           THEN <<"f","a","i","l","e","d"," ","t","o"," ","r","e","a","d"," ","p","l","u","g","i","n"," ","c","o","n","f","i","g">>
           ELSE <<"f","a","i","l","e","d"," ","t","o"," ","p","a","r","s","e"," ","p","l","u","g","i","n"," ","c","o","n","f","i","g">>,
           Errorf(<<"i","o">>, <<>>))

\* What GetPluginCommands returns when loadPluginConfig fails.
ReturnLoadFailure_partial(plugin, cause) ==
    Returned(rootCommands,
             Errorf(<<"f","a","i","l","e","d"," ","t","o"," ","l","o","a","d"," ","p","l","u","g","i","n"," ","c","o","n","f","i","g"," ","f","o","r"," ">> \o plugin.Name, cause))

ReturnLoadFailure(plugin, cause) ==
    Returned(<<>>,
             Errorf(<<"f","a","i","l","e","d"," ","t","o"," ","l","o","a","d"," ","p","l","u","g","i","n"," ","c","o","n","f","i","g"," ","f","o","r"," ">> \o plugin.Name, cause))

\* loadPluginConfig on the path of the latest version's manifest. loads
\* records the path and what reading and parsing the file gave.
LoadPluginConfig ==
    /\ pc = "load"
    /\ LET plugin == registry[idx]
           path   == pluginConfigPath(plugin, latestVersion)
       IN  \E outcome \in {"ok", "unreadable", "malformed"},
              manifest \in ManifestsAt(plugin.UUID) :
              /\ outcome # "ok" => manifest = ManifestAt(plugin.UUID)
              /\ loads' = Append(loads, [path |-> path, outcome |-> outcome,
                                         empty |-> manifest.Commands = <<>>,
                                         manifest |-> manifest])
              /\ IF outcome = "ok"
                 THEN /\ pluginConfig' = manifest
                      /\ pc' = "build"
                      /\ ret' = ret
                 ELSE /\ pluginConfig' = pluginConfig
                      /\ pc' = "done"
                      /\ ret' = ReturnLoadFailure(plugin, loadPluginConfigError(outcome))
    /\ UNCHANGED <<registry, idx, latestVersion, subcommandGroups,
                   subcommandVersions, subcommandPlugins, rootCommands>>
    /\ UNCHANGED invokeVars
    /\ UNCHANGED handlerVars
    /\ UNCHANGED managerVars
    /\ UNCHANGED hostVars

\* Whether the plugin's namespace already has a parent command.
GroupExists_never(plugin) == FALSE

GroupExists(plugin) == plugin.Subcommand \in DOMAIN subcommandGroups

\* The rest of the loop body: the parent command is looked up or created,
\* and every command of the manifest is built and added.
BuildCommands ==
    /\ pc = "build"
    /\ LET plugin    == registry[idx]
           grouped   == plugin.Subcommand # <<>>
           creates   == grouped /\ ~GroupExists(plugin)
           roots     == IF creates
                        THEN Append(rootCommands, ParentCommand(plugin, latestVersion))
                        ELSE rootCommands
           parentIdx == IF ~grouped THEN 0
                        ELSE IF creates THEN Len(roots)
                        ELSE subcommandGroups[plugin.Subcommand]
           r         == CommandsLoop(roots, parentIdx, plugin, latestVersion,
                                     pluginConfig.Commands)
       IN  /\ subcommandGroups' =
                 IF creates THEN MapSet(subcommandGroups, plugin.Subcommand, parentIdx)
                 ELSE subcommandGroups
           /\ subcommandVersions' =
                 IF creates
                 THEN MapSet(subcommandVersions, plugin.Subcommand, latestVersion.Version)
                 ELSE subcommandVersions
           /\ subcommandPlugins' =
                 IF creates
                 THEN MapSet(subcommandPlugins, plugin.Subcommand, plugin.Name)
                 ELSE subcommandPlugins
           /\ rootCommands' = r.roots
           /\ IF r.status = "ok"
              THEN /\ idx' = idx + 1
                   /\ pc' = IF idx + 1 > Len(registry) THEN "return" ELSE "select"
                   /\ ret' = ret
              ELSE IF r.status = "error"
              THEN /\ idx' = idx
                   /\ pc' = "done"
                   /\ ret' = Returned(<<>>, r.err)
              ELSE /\ idx' = idx
                   /\ pc' = "panic"
                   /\ ret' = ret
    /\ UNCHANGED <<registry, latestVersion, pluginConfig, loads>>
    /\ UNCHANGED invokeVars
    /\ UNCHANGED handlerVars
    /\ UNCHANGED managerVars
    /\ UNCHANGED hostVars

\* return rootCommands, nil
Return ==
    /\ pc = "return"
    /\ pc' = "done"
    /\ ret' = Returned(rootCommands, NoError)
    /\ UNCHANGED <<registry, idx, latestVersion, pluginConfig, subcommandGroups,
                   subcommandVersions, subcommandPlugins, rootCommands, loads>>
    /\ UNCHANGED invokeVars
    /\ UNCHANGED handlerVars
    /\ UNCHANGED managerVars
    /\ UNCHANGED hostVars

Next ==
    \/ ReadRegistry
    \/ SelectLatest
    \/ LoadPluginConfig
    \/ BuildCommands
    \/ Return

Spec == Init /\ [][Next]_vars

----------------------------------------------------------------------------
(* Invoking a built command: pflag parsing and cobra's execute *)

MaxDeclArgs == 2
MaxArgs == 3
MaxSupplied == 2

\* What an invoker may type.
ArgTokens == { <<"m","y","-","p","a","c","k","a","g","e">>, <<"x">> }

StringValues == { <<"1",".","2",".","3">>, <<"j","s","o","n">>, <<"i","t">>, <<"i","n","v","a","l","i","d">> }

UnknownFlag == [Name |-> <<"i","n","v","a","l","i","d","-","f","l","a","g">>, Value |-> <<"t","r","u","e">>]

\* The flags an invocation may supply: a value for a string flag, a bare
\* bool flag, or a flag the command does not define.
Suppliable(cmd) ==
    { [Name |-> cmd.flags[i].Name, Value |-> v] :
        i \in { k \in DOMAIN cmd.flags : cmd.flags[k].Type = "string" },
        v \in StringValues }
    \cup { [Name |-> cmd.flags[i].Name, Value |-> <<"t","r","u","e">>] :
             i \in { k \in DOMAIN cmd.flags : cmd.flags[k].Type = "bool" } }
    \cup { UnknownFlag }

\* Command lines: each flag at most once, in any order.
SuppliedLists(cmd) ==
    UNION { { l \in [1..n -> Suppliable(cmd)] :
                \A i, j \in 1..n : i # j => l[i].Name # l[j].Name } :
            n \in 0..MaxSupplied }

ArgLists == UNION { [1..n -> ArgTokens] : n \in 0..MaxArgs }

IsSupplied(supplied, name) == \E i \in DOMAIN supplied : supplied[i].Name = name

\* pflag's Parse: a flag the set does not define is an error.
ParseFlags(cmd, supplied) ==
    IF \E i \in DOMAIN supplied : ~HasFlag(cmd, supplied[i].Name)
    THEN LET i == CHOOSE k \in DOMAIN supplied :
                     /\ ~HasFlag(cmd, supplied[k].Name)
                     /\ \A j \in 1..(k - 1) : HasFlag(cmd, supplied[j].Name)
         IN  Errorf(<<"u","n","k","n","o","w","n"," ","f","l","a","g",":"," ","-","-">> \o supplied[i].Name, <<>>)
    ELSE NoError

\* The flag's value after parsing: what was supplied, else its default.
GetString(cmd, supplied, name) ==
    IF IsSupplied(supplied, name)
    THEN supplied[CHOOSE i \in DOMAIN supplied : supplied[i].Name = name].Value
    ELSE IF HasFlag(cmd, name)
    THEN cmd.flags[CHOOSE i \in DOMAIN cmd.flags : cmd.flags[i].Name = name].Default
    ELSE <<>>

\* sort.Strings, as pflag's sortFlags applies it to the names of the set
\* flags: ascending byte order.
RECURSIVE SortNames(_)
SortNames(names) ==
    IF names = {} THEN <<>>
    ELSE LET least == CHOOSE n \in names : \A m \in names : ~StrLess(m, n)
         IN  <<least>> \o SortNames(names \ {least})

\* The order in which FlagSet.Visit calls back: cmd.Flags() is a flag set
\* with SortFlags left true, so the set flags are visited by name.
VisitOrder_supplied(supplied) ==
    [i \in DOMAIN supplied |-> supplied[i].Name]

VisitOrder(supplied) ==
    SortNames({ supplied[i].Name : i \in DOMAIN supplied })

FlagType(cmd, name) ==
    cmd.flags[CHOOSE i \in DOMAIN cmd.flags : cmd.flags[i].Name = name].Type

\* The text the Visit callback appends for one flag.
RenderFlag(cmd, supplied, name) ==
    IF FlagType(cmd, name) = "bool"
    THEN <<" ","-","-">> \o name
    ELSE <<" ","-","-">> \o name \o <<"=">> \o GetString(cmd, supplied, name)

RECURSIVE RenderFlags(_, _, _)
RenderFlags(cmd, supplied, names) ==
    IF names = <<>> THEN <<>>
    ELSE RenderFlag(cmd, supplied, Head(names))
             \o RenderFlags(cmd, supplied, Tail(names))

\* The Args closure.
ArgsMessage(n) == <<"r","e","q","u","i","r","e","s"," ","a","t"," ","l","e","a","s","t"," ">> \o Itoa(n) \o <<" ","a","r","g","u","m","e","n","t","(","s",")">>

Args(cmd, args) ==
    IF Len(args) < cmd.requiredArgs
    THEN Errorf(ArgsMessage(cmd.requiredArgs), <<>>)
    ELSE NoError

validFormats == { <<"j","s","o","n">>, <<"y","a","m","l">>, <<"t","a","b","l","e">> }

\* The PreRunE closure, where the builder attached one.
PreRunE(cmd, supplied) ==
    IF cmd.PreRunE = "format"
    THEN LET format == GetString(cmd, supplied, <<"f","o","r","m","a","t">>)
         IN  IF format \notin validFormats
             THEN Errorf(<<"i","n","v","a","l","i","d"," ","f","o","r","m","a","t",":"," ">> \o format
                            \o <<"."," ","V","a","l","i","d"," ","f","o","r","m","a","t","s"," ","a","r","e",":"," ","j","s","o","n",","," ","y","a","m","l",","," ","t","a","b","l","e">>, <<>>)
             ELSE NoError
    ELSE NoError

\* cobra's ValidateRequiredFlags: every flag marked required must be set.
ValidateRequiredFlags(cmd, supplied) ==
    IF \E name \in cmd.required : ~IsSupplied(supplied, name)
    THEN Errorf(<<"r","e","q","u","i","r","e","d"," ","f","l","a","g","(","s",")"," ","n","o","t"," ","s","e","t">>, <<>>)
    ELSE NoError

\* The RunE closure: the command summary it prints after "Executing: ".
RunE(cmd, args, supplied) ==
    cmd.cmdName \o <<" ">> \o Join(args, <<" ">>)
        \o RenderFlags(cmd, supplied, VisitOrder(supplied))

Outcome(args, supplied, stage, err, summary) ==
    [done |-> TRUE, args |-> args, supplied |-> supplied, stage |-> stage,
     err |-> err, ran |-> stage = "run", summary |-> summary]

\* cobra's Command.execute on a runnable command: flags are parsed, then
\* Args, PreRunE and the required flags are checked, and only then RunE runs.
Execute_unchecked(cmd, args, supplied) ==
    Outcome(args, supplied, "run", NoError, RunE(cmd, args, supplied))

Execute(cmd, args, supplied) ==
    IF ~ParseFlags(cmd, supplied).nil
    THEN Outcome(args, supplied, "parse", ParseFlags(cmd, supplied), <<>>)
    ELSE IF ~Args(cmd, args).nil
    THEN Outcome(args, supplied, "args", Args(cmd, args), <<>>)
    ELSE IF ~PreRunE(cmd, supplied).nil
    THEN Outcome(args, supplied, "prerun", PreRunE(cmd, supplied), <<>>)
    ELSE IF ~ValidateRequiredFlags(cmd, supplied).nil
    THEN Outcome(args, supplied, "required", ValidateRequiredFlags(cmd, supplied), <<>>)
    ELSE Outcome(args, supplied, "run", NoError, RunE(cmd, args, supplied))

NotInvoked ==
    [done |-> FALSE, args |-> <<>>, supplied |-> <<>>, stage |-> "none",
     err |-> NoError, ran |-> FALSE, summary |-> <<>>]

NotBuilt == [status |-> "none", cmd |-> NewCommand(Command(<<>>, <<>>, <<>>, <<>>)),
             err |-> NoError]

ArgNames == << <<"p","a","c","k","a","g","e">>, <<"q">>, <<"r">>, <<"s">> >>

\* The manifest command with its declared arguments replaced by one
\* argument per entry of required.
WithArgs(config, required) ==
    [config EXCEPT !.Args = [i \in DOMAIN required |-> Arg(ArgNames[i], required[i])]]

\* A list command whose format flag declares the values a and b and no default.
ListNoDefaultConfig ==
    Command(<<"l","i","s","t">>, <<"w","p","c","l","i"," ","l","i","s","t">>, <<>>,
            <<ManifestFlag(<<"-","-","a","l","l">>, <<"-","a">>, <<"b","o","o","l">>, FALSE, <<>>, <<>>),
              ManifestFlag(<<"-","-","f","o","r","m","a","t">>, <<>>, <<"s","t","r","i","n","g">>, FALSE, <<>>,
                           <<<<"a">>, <<"b">>>>)>>)

\* A command with an optional flag of kind int after a bool flag.
ScaleConfig ==
    Command(<<"s","c","a","l","e">>, <<"w","p","c","l","i"," ","s","c","a","l","e">>, <<>>,
            <<ManifestFlag(<<"-","-","d","r","y","-","r","u","n">>, <<>>, <<"b","o","o","l">>, FALSE, <<>>, <<>>),
              ManifestFlag(<<"-","-","c","o","u","n","t">>, <<"-","c">>, <<"i","n","t">>, FALSE, <<"1">>, <<>>)>>)

\* A command whose only flag is of kind enum and required.
ModeConfig ==
    Command(<<"m","o","d","e">>, <<"w","p","c","l","i"," ","m","o","d","e">>, <<>>,
            <<ManifestFlag(<<"-","-","l","e","v","e","l">>, <<>>, <<"e","n","u","m">>, TRUE, <<>>,
                           <<<<"l","o","w">>, <<"h","i","g","h">>>>)>>)

InvokeConfigs ==
    { WithArgs(c, r) :
        c \in { InstallConfig, ListConfig, GreetConfig, ListNoDefaultConfig,
                ScaleConfig, ModeConfig },
        r \in UNION { [1..n -> BOOLEAN] : n \in 0..Min(MaxDeclArgs, Len(ArgNames)) } }

BuildIdle ==
    /\ pc = "idle"
    /\ registry = <<>>
    /\ idx = 0
    /\ latestVersion = NoVersion
    /\ pluginConfig = NoManifest
    /\ subcommandGroups = EmptyMap
    /\ subcommandVersions = EmptyMap
    /\ subcommandPlugins = EmptyMap
    /\ rootCommands = <<>>
    /\ ret = NotReturned
    /\ loads = <<>>

InvokeInit ==
    /\ ManagersIdle
    /\ BuildIdle
    /\ HandlersIdle
    /\ HostIdle
    /\ cmdConfig \in InvokeConfigs
    /\ built = NotBuilt
    /\ inv = NotInvoked

\* The command is built as GetPluginCommands builds it, under a parent or
\* at top level.
BuildOne ==
    /\ built.status = "none"
    /\ \E hasParent \in BOOLEAN :
          built' = BuildCommand(cmdConfig,
                                [Name |-> <<"a","l","p","h","a">>, UUID |-> <<"u","1">>],
                                VersionUniverse[1], hasParent)
    /\ UNCHANGED <<cmdConfig, inv>>
    /\ UNCHANGED buildVars
    /\ UNCHANGED handlerVars
    /\ UNCHANGED managerVars
    /\ UNCHANGED hostVars

\* One invocation of the built command: one run of the process.
Invoke ==
    /\ built.status = "ok"
    /\ ~inv.done
    /\ \E args \in ArgLists, supplied \in SuppliedLists(built.cmd) :
          inv' = Execute(built.cmd, args, supplied)
    /\ UNCHANGED <<cmdConfig, built>>
    /\ UNCHANGED buildVars
    /\ UNCHANGED handlerVars
    /\ UNCHANGED managerVars
    /\ UNCHANGED hostVars

InvokeNext ==
    \/ BuildOne
    \/ Invoke

SpecInvoke == InvokeInit /\ [][InvokeNext]_vars

----------------------------------------------------------------------------
(* Handler resolution: flags.GetHandler, flags.ParseFlagType and
   plugins.GetFlagHandler *)

MaxValidValues == 2

TypeString == <<"s","t","r","i","n","g">>
TypeBool == <<"b","o","o","l">>
TypeInt == <<"i","n","t">>
TypeEnum == <<"e","n","u","m">>

\* The handler GetHandler returns, by the name of its type.
GetHandler_strict(flagType, flag) ==
    IF flagType = TypeEnum \/ (flagType = TypeString /\ Len(flag.ValidValues) > 0)
    THEN "EnumFlagHandler"
    ELSE IF flagType = TypeString THEN "StringFlagHandler"
    ELSE IF flagType = TypeBool THEN "BoolFlagHandler"
    ELSE IF flagType = TypeInt THEN "IntFlagHandler"
    ELSE "nil"

GetHandler(flagType, flag) ==
    IF flagType = TypeEnum \/ (flagType = TypeString /\ Len(flag.ValidValues) > 0)
    THEN "EnumFlagHandler"
    ELSE IF flagType = TypeString THEN "StringFlagHandler"
    ELSE IF flagType = TypeBool THEN "BoolFlagHandler"
    ELSE IF flagType = TypeInt THEN "IntFlagHandler"
    ELSE "StringFlagHandler"

UpperCase == <<"A", "B", "E", "G", "I", "L", "M", "N", "O", "R", "S", "T", "U">>
LowerCase == <<"a", "b", "e", "g", "i", "l", "m", "n", "o", "r", "s", "t", "u">>

\* strings.ToLower
ToLower(s) ==
    [i \in DOMAIN s |->
        IF \E k \in DOMAIN UpperCase : UpperCase[k] = s[i]
        THEN LowerCase[CHOOSE k \in DOMAIN UpperCase : UpperCase[k] = s[i]]
        ELSE s[i]]

ParseFlagType(typeStr) ==
    LET lower == ToLower(typeStr)
    IN  IF lower = <<"s","t","r","i","n","g">> THEN TypeString
        ELSE IF lower = <<"b","o","o","l">> THEN TypeBool
        ELSE IF lower = <<"i","n","t">> THEN TypeInt
        ELSE IF lower = <<"e","n","u","m">> THEN TypeEnum
        ELSE TypeString

\* The FlagHandlers map of package plugins.
FlagHandlers ==
    [k \in {<<"s","t","r","i","n","g">>, <<"b","o","o","l">>, <<"i","n","t">>, <<"e","n","u","m">>} |->
        IF k = <<"s","t","r","i","n","g">> THEN "StringFlagHandler"
        ELSE IF k = <<"b","o","o","l">> THEN "BoolFlagHandler"
        ELSE IF k = <<"i","n","t">> THEN "IntFlagHandler"
        ELSE "EnumFlagHandler"]

GetFlagHandler(flagType, flag) ==
    IF Len(flag.ValidValues) > 0
    THEN [handler |-> FlagHandlers[<<"e","n","u","m">>], err |-> NoError]
    ELSE IF flagType \in DOMAIN FlagHandlers
    THEN [handler |-> FlagHandlers[flagType], err |-> NoError]
    ELSE [handler |-> "nil",
          err |-> Errorf(<<"u","n","s","u","p","p","o","r","t","e","d"," ","f","l","a","g"," ","t","y","p","e",":"," ">> \o flagType, <<>>)]

\* The kinds a manifest may declare, recognized or not.
Kinds == { <<"s","t","r","i","n","g">>, <<"b","o","o","l">>, <<"i","n","t">>, <<"e","n","u","m">>, <<"n","u","m","b","e","r">>, <<"B","o","o","l">> }

Values == { <<"a">>, <<"b">> }

ValueLists == UNION { [1..n -> Values] : n \in 0..MaxValidValues }

HandlerInit ==
    /\ ManagersIdle
    /\ BuildIdle
    /\ InvokeIdle
    /\ HostIdle
    /\ hflag \in [Type : Kinds, Default : {<<>>} \cup Values, ValidValues : ValueLists]
    /\ hargs = NoArgs
    /\ hres = NotResolved

\* The three resolution functions applied to the flag's declared kind.
Resolve ==
    /\ ~hres.done
    /\ hres' = [done |-> TRUE,
                GetHandler |-> GetHandler(hflag.Type, hflag),
                ParseFlagType |-> ParseFlagType(hflag.Type),
                GetFlagHandler |-> GetFlagHandler(hflag.Type, hflag)]
    /\ UNCHANGED <<hflag, hargs>>
    /\ UNCHANGED buildVars
    /\ UNCHANGED invokeVars
    /\ UNCHANGED hostVars
    /\ UNCHANGED managerVars

HandlerNext == Resolve

SpecHandlers == HandlerInit /\ [][HandlerNext]_vars

----------------------------------------------------------------------------
(* Validation and registration by the handler sets: ValidateValue,
   Flag.IsValidValue, Flag.Validate, Flag.GetDescription, flags.AddFlags *)

DecimalDigits == <<"0", "1", "2", "3", "4", "5", "6", "7", "8", "9">>

IsDigit(c) == \E d \in DOMAIN DecimalDigits : DecimalDigits[d] = c

DigitValue(c) == (CHOOSE d \in DOMAIN DecimalDigits : DecimalDigits[d] = c) - 1

\* The longest prefix of s made of decimal digits and underscores.
RECURSIVE scanNumber(_)
scanNumber(s) ==
    IF s # <<>> /\ (IsDigit(Head(s)) \/ Head(s) = "_")
    THEN <<Head(s)>> \o scanNumber(Tail(s))
    ELSE <<>>

RECURSIVE SkipSpace(_)
SkipSpace(s) == IF s # <<>> /\ Head(s) = " " THEN SkipSpace(Tail(s)) ELSE s

RECURSIVE ParseDigits(_, _)
ParseDigits(tok, acc) ==
    IF tok = <<>> THEN acc ELSE ParseDigits(Tail(tok), 10 * acc + DigitValue(Head(tok)))

\* fmt.Sscanf(value, "%d", &n): leading spaces are skipped, a sign is
\* accepted, then at least one digit is needed; what follows the number is
\* left unread.
Sscanf(value) ==
    LET s      == SkipSpace(value)
        signed == s # <<>> /\ Head(s) \in {"+", "-"}
        tok    == scanNumber(IF signed THEN Tail(s) ELSE s)
    IN  IF tok = <<>> \/ \E i \in DOMAIN tok : tok[i] = "_"
        THEN [ok |-> FALSE, n |-> 0]
        ELSE [ok |-> TRUE,
              n  |-> IF signed /\ Head(s) = "-" THEN 0 - ParseDigits(tok, 0)
                     ELSE ParseDigits(tok, 0)]

\* %d of an int
RECURSIVE FormatInt(_)
FormatInt(n) ==
    IF n < 0 THEN <<"-">> \o FormatInt(0 - n)
    ELSE IF n < 10 THEN <<DecimalDigits[n + 1]>>
    ELSE FormatInt(n \div 10) \o <<DecimalDigits[(n % 10) + 1]>>

\* The value a check looks up: the default stands in for an empty value.
Substitute_never(flag, value) == value

Substitute(flag, value) ==
    IF value = <<>> /\ flag.Default # <<>> THEN flag.Default ELSE value

Member(list, value) == \E i \in DOMAIN list : list[i] = value

IsValidValue(flag, value) ==
    IF Len(flag.ValidValues) = 0 THEN TRUE
    ELSE Member(flag.ValidValues, Substitute(flag, value))

InvalidValue(flag, shown) ==
    Errorf(<<"i","n","v","a","l","i","d"," ","v","a","l","u","e"," ","f","o","r"," ","f","l","a","g"," ">> \o flag.Name \o <<":"," ">> \o shown
              \o <<"."," ","V","a","l","i","d"," ","v","a","l","u","e","s"," ","a","r","e",":"," ">> \o Join(flag.ValidValues, <<","," ">>), <<>>)

InvalidInteger(flag, value) ==
    Errorf(<<"i","n","v","a","l","i","d"," ","i","n","t","e","g","e","r"," ","v","a","l","u","e"," ","f","o","r"," ","f","l","a","g"," ">> \o flag.Name \o <<":"," ">> \o value, <<>>)

\* package flags
StringFlagHandler_ValidateValue(flag, value) ==
    IF ~IsValidValue(flag, value) THEN InvalidValue(flag, value) ELSE NoError

BoolFlagHandler_ValidateValue(flag, value) ==
    IF ~IsValidValue(flag, value) THEN InvalidValue(flag, value) ELSE NoError

IntFlagHandler_ValidateValue(flag, value) ==
    IF ~Sscanf(value).ok THEN InvalidInteger(flag, value)
    ELSE IF ~IsValidValue(flag, value)
    THEN InvalidValue(flag, FormatInt(Sscanf(value).n))
    ELSE NoError

EnumFlagHandler_ValidateValue(flag, value) ==
    IF Len(flag.ValidValues) > 0 /\ ~Member(flag.ValidValues, Substitute(flag, value))
    THEN InvalidValue(flag, Substitute(flag, value))
    ELSE NoError

\* package plugins
plugins_StringFlagHandler_ValidateValue(flag, value) ==
    IF Len(flag.ValidValues) > 0 /\ ~Member(flag.ValidValues, Substitute(flag, value))
    THEN InvalidValue(flag, Substitute(flag, value))
    ELSE NoError

plugins_BoolFlagHandler_ValidateValue(flag, value) ==
    IF Len(flag.ValidValues) > 0 /\ ~Member(flag.ValidValues, Substitute(flag, value))
    THEN InvalidValue(flag, Substitute(flag, value))
    ELSE NoError

plugins_IntFlagHandler_ValidateValue(flag, value) ==
    IF Len(flag.ValidValues) = 0 THEN NoError
    ELSE LET v == Substitute(flag, value)
         IN  IF ~Sscanf(v).ok THEN InvalidInteger(flag, v)
             ELSE IF \E i \in DOMAIN flag.ValidValues : ~Sscanf(flag.ValidValues[i]).ok
             THEN LET i == CHOOSE k \in DOMAIN flag.ValidValues :
                              /\ ~Sscanf(flag.ValidValues[k]).ok
                              /\ \A j \in 1..(k - 1) : Sscanf(flag.ValidValues[j]).ok
                  IN  Errorf(<<"i","n","v","a","l","i","d"," ","v","a","l","i","d"," ","v","a","l","u","e"," ","f","o","r"," ","i","n","t"," ","f","l","a","g"," ">> \o flag.Name
                                \o <<":"," ">> \o flag.ValidValues[i], <<>>)
             ELSE IF ~\E i \in DOMAIN flag.ValidValues :
                        Sscanf(flag.ValidValues[i]).n = Sscanf(v).n
             THEN InvalidValue(flag, FormatInt(Sscanf(v).n))
             ELSE NoError

plugins_EnumFlagHandler_ValidateValue_guarded(flag, value) ==
    IF Len(flag.ValidValues) > 0 /\ ~Member(flag.ValidValues, Substitute(flag, value))
    THEN InvalidValue(flag, Substitute(flag, value))
    ELSE NoError

plugins_EnumFlagHandler_ValidateValue(flag, value) ==
    IF ~Member(flag.ValidValues, Substitute(flag, value))
    THEN InvalidValue(flag, Substitute(flag, value))
    ELSE NoError

\* The handler's ValidateValue, by the handler's type name.
ValidateValue(handler, flag, value) ==
    IF handler = "StringFlagHandler" THEN StringFlagHandler_ValidateValue(flag, value)
    ELSE IF handler = "BoolFlagHandler" THEN BoolFlagHandler_ValidateValue(flag, value)
    ELSE IF handler = "IntFlagHandler" THEN IntFlagHandler_ValidateValue(flag, value)
    ELSE EnumFlagHandler_ValidateValue(flag, value)

plugins_ValidateValue(handler, flag, value) ==
    IF handler = "StringFlagHandler"
    THEN plugins_StringFlagHandler_ValidateValue(flag, value)
    ELSE IF handler = "BoolFlagHandler"
    THEN plugins_BoolFlagHandler_ValidateValue(flag, value)
    ELSE IF handler = "IntFlagHandler"
    THEN plugins_IntFlagHandler_ValidateValue(flag, value)
    ELSE plugins_EnumFlagHandler_ValidateValue(flag, value)

\* m[k] on a Go map of strings: the zero value for a missing key.
MapGet(m, k) == IF k \in DOMAIN m THEN m[k] ELSE <<>>

GetDescription_en(flag, lang) ==
    IF lang \in DOMAIN flag.Description THEN flag.Description[lang]
    ELSE IF <<"e","n">> \in DOMAIN flag.Description THEN flag.Description[<<"e","n">>]
    ELSE MapGet(flag.Description, <<"d","e","f","a","u","l","t">>)

GetDescription(flag, lang) ==
    IF lang \in DOMAIN flag.Description THEN flag.Description[lang]
    ELSE MapGet(flag.Description, <<"d","e","f","a","u","l","t">>)

\* The description the AddFlag methods of package plugins register.
plugins_description(flag) ==
    IF MapGet(flag.Description, <<"e","n">>) = <<>>
    THEN MapGet(flag.Description, <<"d","e","f","a","u","l","t">>)
    ELSE MapGet(flag.Description, <<"e","n">>)

\* Flag.Validate
Validate(flag) ==
    IF flag.Name = <<>> THEN Errorf(<<"f","l","a","g"," ","n","a","m","e"," ","c","a","n","n","o","t"," ","b","e"," ","e","m","p","t","y">>, <<>>)
    ELSE IF flag.Type = <<>> THEN Errorf(<<"f","l","a","g"," ","t","y","p","e"," ","c","a","n","n","o","t"," ","b","e"," ","e","m","p","t","y">>, <<>>)
    ELSE IF /\ flag.Type = TypeEnum
            /\ Len(flag.ValidValues) > 0
            /\ flag.Default # <<>>
            /\ ~IsValidValue(flag, flag.Default)
    THEN Errorf(<<"d","e","f","a","u","l","t"," ","v","a","l","u","e"," ">> \o flag.Default
                   \o <<" ","i","s"," ","n","o","t"," ","i","n"," ","v","a","l","i","d"," ","v","a","l","u","e","s"," ","f","o","r"," ","e","n","u","m"," ","f","l","a","g"," ">> \o flag.Name, <<>>)
    ELSE NoError

\* strings.TrimPrefix
TrimPrefix(s, prefix) ==
    IF HasPrefix(s, prefix) THEN SubSeq(s, Len(prefix) + 1, Len(s)) ELSE s

NormalizeFlagName(name) == TrimPrefix(name, <<"-","-">>)

NormalizeShorthand(short) == TrimPrefix(short, <<"-">>)

\* What the handler's AddFlag defines on the flag set: the pflag type, the
\* default and the usage text; an int default that does not scan is an error.
Handler_AddFlag(handler, flag) ==
    LET name == NormalizeFlagName(flag.Name)
        desc == GetDescription(flag, <<"e","n">>)
        defined(type, default, text) ==
            [err |-> NoError,
             flag |-> [Name |-> name, Shorthand |-> NormalizeShorthand(flag.Shorthand),
                       Type |-> type, Default |-> default, Usage |-> text,
                       Required |-> flag.Required]]
    IN  IF handler = "StringFlagHandler" THEN defined("string", flag.Default, desc)
        ELSE IF handler = "BoolFlagHandler"
        THEN defined("bool", IF flag.Default = <<"t","r","u","e">> THEN <<"t","r","u","e">> ELSE <<"f","a","l","s","e">>, desc)
        ELSE IF handler = "IntFlagHandler"
        THEN IF flag.Default # <<>> /\ ~Sscanf(flag.Default).ok
             THEN [err |-> Errorf(<<"i","n","v","a","l","i","d"," ","d","e","f","a","u","l","t"," ","v","a","l","u","e"," ","f","o","r"," ","i","n","t"," ","f","l","a","g"," ">> \o name,
                                  Errorf(<<"e","x","p","e","c","t","e","d"," ","i","n","t","e","g","e","r">>, <<>>)),
                   flag |-> <<>>]
             ELSE defined("int",
                      IF flag.Default = <<>> THEN <<"0">>
                      ELSE FormatInt(Sscanf(flag.Default).n),
                      desc)
        ELSE defined("string", flag.Default,
                 IF Len(flag.ValidValues) > 0
                 THEN desc \o <<" ","(","v","a","l","i","d"," ","v","a","l","u","e","s",":"," ">> \o Join(flag.ValidValues, <<","," ">>) \o <<")">>
                 ELSE desc)

\* flags.AddFlags: each flag is validated and then added by its handler;
\* the first error ends the loop. pflag refuses a name defined twice.
RECURSIVE flags_AddFlags(_, _)
flags_AddFlags(registered, flags) ==
    IF flags = <<>> THEN [status |-> "ok", flags |-> registered, err |-> NoError]
    ELSE LET flag == Head(flags)
             r    == Handler_AddFlag(GetHandler(flag.Type, flag), flag)
         IN  IF ~Validate(flag).nil
             THEN [status |-> "error", flags |-> registered,
                   err |-> Errorf(<<"i","n","v","a","l","i","d"," ","f","l","a","g"," ","c","o","n","f","i","g","u","r","a","t","i","o","n">>, Validate(flag))]
             ELSE IF ~r.err.nil
             THEN [status |-> "error", flags |-> registered,
                   err |-> Errorf(<<"f","a","i","l","e","d"," ","t","o"," ","a","d","d"," ","f","l","a","g"," ">> \o flag.Name, r.err)]
             ELSE IF \E i \in DOMAIN registered : registered[i].Name = r.flag.Name
             THEN [status |-> "panic", flags |-> registered, err |-> NoError]
             ELSE flags_AddFlags(Append(registered, r.flag), Tail(flags))

HandlerNames ==
    {"StringFlagHandler", "BoolFlagHandler", "IntFlagHandler", "EnumFlagHandler"}

ValidationKinds == { <<"s","t","r","i","n","g">>, <<"b","o","o","l">>, <<"i","n","t">>, <<"e","n","u","m">>, <<"n","u","m","b","e","r">> }

ValidationValues == { <<"a">>, <<"7">>, <<"0","7">> }

ValidationLists == UNION { [1..n -> ValidationValues] : n \in 0..MaxValidValues }

Languages == { <<"e","n">>, <<"i","t">> }

\* The description maps: any of the keys en, it and default, each with its
\* own text, and the en text possibly empty.
DescriptionMaps ==
    { [k \in keys |-> IF k = <<"e","n">> THEN en ELSE <<Head(k)>>] :
        keys \in SUBSET { <<"e","n">>, <<"i","t">>, <<"d","e","f","a","u","l","t">> }, en \in { <<>>, <<"e">> } }

NotValidated == [done |-> FALSE]

ValidationInit ==
    /\ ManagersIdle
    /\ BuildIdle
    /\ InvokeIdle
    /\ HostIdle
    /\ hflag \in [ Name : { <<"-","-","l","e","v","e","l">> }, Shorthand : { <<>> }, Type : ValidationKinds,
                   Description : DescriptionMaps, Required : { FALSE },
                   Default : { <<>> } \cup ValidationValues,
                   ValidValues : ValidationLists ]
    /\ hargs \in [ value : { <<>> } \cup ValidationValues, lang : Languages ]
    /\ hres = NotValidated

\* The functions of the two handler sets applied to the flag, the value
\* and the language.
ValidateAndRegister ==
    /\ ~hres.done
    /\ hres' =
          [ done |-> TRUE,
            IsValidValue |-> IsValidValue(hflag, hargs.value),
            ValidateValue |->
                [h \in HandlerNames |-> ValidateValue(h, hflag, hargs.value)],
            plugins_ValidateValue |->
                [h \in HandlerNames |-> plugins_ValidateValue(h, hflag, hargs.value)],
            GetDescription |-> GetDescription(hflag, hargs.lang),
            plugins_description |-> plugins_description(hflag),
            AddFlags |-> flags_AddFlags(<<>>, <<hflag>>) ]
    /\ UNCHANGED <<hflag, hargs>>
    /\ UNCHANGED buildVars
    /\ UNCHANGED invokeVars
    /\ UNCHANGED hostVars
    /\ UNCHANGED managerVars

ValidationNext == ValidateAndRegister

SpecValidation == ValidationInit /\ [][ValidationNext]_vars

----------------------------------------------------------------------------
(* The host: package cmd's init functions, loadPluginCommands and Execute *)

MaxArgv == 2

BuiltinCommand(use, short, long) ==
    [ Use          |-> use,
      Short        |-> short,
      Long         |-> long,
      Runnable     |-> TRUE,
      requiredArgs |-> 0,
      cmdName      |-> <<>>,
      flags        |-> <<>>,
      required     |-> {},
      PreRunE      |-> "none",
      children     |-> <<>> ]

infoCmd ==
    BuiltinCommand(<<"i","n","f","o"," ","[","p","l","u","g","i","n","-","n","a","m","e","]">>,
                   <<"G","e","t"," ","d","e","t","a","i","l","e","d"," ","i","n","f","o","r","m","a","t","i","o","n"," ","a","b","o","u","t"," ","a"," ","s","p","e","c","i","f","i","c"," ","p","l","u","g","i","n"," ","(","b","u","i","l","t","i","n",")">>,
                   <<"G","e","t"," ","d","e","t","a","i","l","e","d"," ","i","n","f","o","r","m","a","t","i","o","n"," ","a","b","o","u","t"," ","a"," ","s","p","e","c","i","f","i","c"," ","p","l","u","g","i","n"," ","f","r","o","m"," ","t","h","e"," ","w","p","s","t","o","r","e"," ","r","e","p","o","s","i","t","o","r","y"," ","(","b","u","i","l","t","i","n",")">>)

listCmd ==
    BuiltinCommand(<<"l","i","s","t">>,
                   <<"L","i","s","t"," ","a","l","l"," ","a","v","a","i","l","a","b","l","e"," ","p","l","u","g","i","n","s">>,
                   <<"L","i","s","t"," ","a","l","l"," ","a","v","a","i","l","a","b","l","e"," ","p","l","u","g","i","n","s"," ","f","r","o","m"," ","t","h","e"," ","w","p","s","t","o","r","e"," ","r","e","p","o","s","i","t","o","r","y">>)

\* rootCmd.Commands() when root.go's init runs: the init functions of
\* info.go and list.go have run before it.
Builtins == <<infoCmd, listCmd>>

HasCause(err) == DOMAIN err.wraps # {}

\* The text of an error made by fmt.Errorf("...: %w", cause).
RECURSIVE ErrorText(_)
ErrorText(err) ==
    IF HasCause(err) THEN err.msg \o <<":"," ">> \o ErrorText(err.wraps) ELSE err.msg

\* What init writes to stderr when loadPluginCommands fails.
Warning_silent(err) == <<>>

Warning(err) ==
    <<"W","a","r","n","i","n","g",":"," ","f","a","i","l","e","d"," ","t","o"," ","l","o","a","d"," ","p","l","u","g","i","n"," ","c","o","m","m","a","n","d","s",":"," ">> \o ErrorText(err) \o <<"\n">>

\* The steps of loadPluginCommands that precede the build, and the message
\* each fails with.
Preparation ==
    [ home  |-> <<"f","a","i","l","e","d"," ","t","o"," ","g","e","t"," ","h","o","m","e"," ","d","i","r","e","c","t","o","r","y">>,
      mkdir |-> <<"f","a","i","l","e","d"," ","t","o"," ","c","r","e","a","t","e"," ","b","a","s","e"," ","d","i","r","e","c","t","o","r","y">>,
      clone |-> <<"f","a","i","l","e","d"," ","t","o"," ","c","l","o","n","e"," ","r","e","p","o","s","i","t","o","r","y">>,
      pull  |-> <<"f","a","i","l","e","d"," ","t","o"," ","p","u","l","l"," ","r","e","p","o","s","i","t","o","r","y">> ]

\* The loop that adds the plugin commands to rootCmd, skipping a command
\* whose first usage token is already taken; reading the first token of a
\* usage without tokens faults.
RECURSIVE AddCommands_all(_, _)
AddCommands_all(commands, pluginCommands) ==
    IF pluginCommands = <<>> THEN [status |-> "ok", commands |-> commands]
    ELSE LET cmd == Head(pluginCommands)
         IN  IF Fields(cmd.Use) = <<>>
             THEN [status |-> "panic", commands |-> commands]
             ELSE AddCommands_all(Append(commands, cmd), Tail(pluginCommands))

RECURSIVE AddCommands(_, _)
AddCommands(commands, pluginCommands) ==
    IF pluginCommands = <<>> THEN [status |-> "ok", commands |-> commands]
    ELSE LET cmd == Head(pluginCommands)
         IN  IF Fields(cmd.Use) = <<>>
             THEN [status |-> "panic", commands |-> commands]
             ELSE IF \E i \in DOMAIN commands :
                        Fields(commands[i].Use)[1] = Fields(cmd.Use)[1]
             THEN AddCommands(commands, Tail(pluginCommands))
             ELSE AddCommands(Append(commands, cmd), Tail(pluginCommands))

\* The registries the host is started on: each plugin has one version or none.
HostVersionLists == { <<>>, <<VersionUniverse[1]>> }

HostInit ==
    /\ ManagersIdle
    /\ HandlersIdle
    /\ InvokeIdle
    /\ pc = "idle"
    /\ \E n \in 0..Min(MaxPlugins, Len(PluginUniverse)) :
          \E v \in [1..n -> HostVersionLists], s \in [1..n -> Namespaces] :
             registry = Registry(n, v, s)
    /\ idx = 0
    /\ latestVersion = NoVersion
    /\ pluginConfig = NoManifest
    /\ subcommandGroups = EmptyMap
    /\ subcommandVersions = EmptyMap
    /\ subcommandPlugins = EmptyMap
    /\ rootCommands = <<>>
    /\ ret = NotReturned
    /\ loads = <<>>
    /\ host = [pc |-> "init", commands |-> Builtins, warning |-> <<>>, err |-> NoError]
    /\ dispatch = NotDispatched

\* init when loadPluginCommands has returned err: the warning is written
\* and start-up goes on.
InitWarns(err) ==
    [host EXCEPT !.pc = "started", !.err = err, !.warning = Warning(err)]

\* loadPluginCommands up to its call of plugins.GetPluginCommands.
loadPluginCommands ==
    /\ host.pc = "init"
    /\ \E outcome \in {"ok"} \cup DOMAIN Preparation :
          IF outcome = "ok"
          THEN /\ host' = [host EXCEPT !.pc = "building"]
               /\ pc' = "start"
          ELSE /\ host' = InitWarns(Errorf(Preparation[outcome], Errorf(<<"i","o">>, <<>>)))
               /\ pc' = pc
    /\ UNCHANGED <<registry, idx, latestVersion, pluginConfig, subcommandGroups,
                   subcommandVersions, subcommandPlugins, rootCommands, ret, loads>>
    /\ UNCHANGED dispatch
    /\ UNCHANGED invokeVars
    /\ UNCHANGED handlerVars
    /\ UNCHANGED managerVars

\* loadPluginCommands from the return of plugins.GetPluginCommands, and the
\* rest of init.
MergePluginCommands ==
    /\ host.pc = "building"
    /\ pc = "done"
    /\ ret.returned
    /\ IF ~ret.err.nil
       THEN host' = InitWarns(Errorf(<<"f","a","i","l","e","d"," ","t","o"," ","l","o","a","d"," ","p","l","u","g","i","n"," ","c","o","m","m","a","n","d","s">>, ret.err))
       ELSE LET r == AddCommands(host.commands, ret.commands)
            IN  host' = [host EXCEPT !.pc = IF r.status = "ok" THEN "started" ELSE "panic",
                                     !.commands = r.commands]
    /\ UNCHANGED dispatch
    /\ UNCHANGED buildVars
    /\ UNCHANGED invokeVars
    /\ UNCHANGED handlerVars
    /\ UNCHANGED managerVars

ArgvTokens ==
    { <<"i","n","v","a","l","i","d","-","c","o","m","m","a","n","d">>, <<"p","k","g">>, <<"i","n","v","a","l","i","d","-","s","u","b","c","o","m","m","a","n","d">>, <<"i","n","s","t","a","l","l">>, <<"l","i","s","t">>,
      <<"m","y","-","p","a","c","k","a","g","e">> }

Argvs == UNION { [1..n -> ArgvTokens] : n \in 0..MaxArgv }

\* cobra's findNext without prefix matching: the first command of that name.
findNext(commands, next) ==
    IF \E i \in DOMAIN commands : Name(commands[i].Use) = next
    THEN CHOOSE i \in DOMAIN commands :
            /\ Name(commands[i].Use) = next
            /\ \A j \in 1..(i - 1) : Name(commands[j].Use) # next
    ELSE 0

UnknownCommand(arg) ==
    Errorf(<<"u","n","k","n","o","w","n"," ","c","o","m","m","a","n","d"," ","\\","\"">> \o arg \o <<"\\","\""," ","f","o","r"," ","\\","\"","w","p","c","l","i","\\","\"">>, <<>>)

\* cobra's Find from rootCmd: the path of the command the tokens lead to
\* and the tokens left over as its arguments. rootCmd sets no Args and has
\* subcommands, so a first token that names none of them is an error.
Find_lenient(commands, argv) ==
    [found |-> <<>>, args |-> argv, err |-> NoError]

Find(commands, argv) ==
    IF argv = <<>> THEN [found |-> <<>>, args |-> <<>>, err |-> NoError]
    ELSE LET i == findNext(commands, argv[1])
         IN  IF i = 0
             THEN [found |-> <<>>, args |-> argv, err |-> UnknownCommand(argv[1])]
             ELSE LET rest == Tail(argv)
                      j    == IF rest = <<>> THEN 0
                              ELSE findNext(commands[i].children, rest[1])
                  IN  IF j = 0
                      THEN [found |-> <<i>>, args |-> rest, err |-> NoError]
                      ELSE [found |-> <<i, j>>, args |-> Tail(rest), err |-> NoError]

Dispatched(argv, found, exit, ran, summary, err) ==
    [done |-> TRUE, argv |-> argv, found |-> found, exit |-> exit, ran |-> ran,
     summary |-> summary, err |-> err]

\* cobra.ExactArgs(1), the Args of infoCmd
ExactArgs1(args) ==
    IF Len(args) = 1 THEN NoError
    ELSE Errorf(<<"a","c","c","e","p","t","s"," ","1"," ","a","r","g","(","s",")",","," ","r","e","c","e","i","v","e","d"," ">> \o Itoa(Len(args)), <<>>)

\* Execute: rootCmd.Execute() and the exit code. io is the outcome of the
\* file and repository operations of a built-in command.
ExecuteC(commands, argv, io) ==
    LET f == Find(commands, argv)
    IN  IF ~f.err.nil THEN Dispatched(argv, f.found, 1, "none", <<>>, f.err)
        ELSE IF f.found = <<>> THEN Dispatched(argv, f.found, 0, "help", <<>>, NoError)
        ELSE LET cmd == IF Len(f.found) = 1 THEN commands[f.found[1]]
                        ELSE commands[f.found[1]].children[f.found[2]]
             IN  IF ~cmd.Runnable
                 THEN Dispatched(argv, f.found, 0, "help", <<>>, NoError)
                 ELSE IF cmd = infoCmd /\ ~ExactArgs1(f.args).nil
                 THEN Dispatched(argv, f.found, 1, "none", <<>>, ExactArgs1(f.args))
                 ELSE IF cmd \in {infoCmd, listCmd}
                 THEN IF io = "ok"
                      THEN Dispatched(argv, f.found, 0, "builtin", <<>>, NoError)
                      ELSE Dispatched(argv, f.found, 1, "builtin", <<>>,
                                      Errorf(<<"f","a","i","l","e","d"," ","t","o"," ","l","o","a","d"," ","p","l","u","g","i","n","s"," ","c","o","n","f","i","g","u","r","a","t","i","o","n">>,
                                             Errorf(<<"i","o">>, <<>>)))
                 ELSE LET o == Execute(cmd, f.args, <<>>)
                      IN  Dispatched(argv, f.found, IF o.err.nil THEN 0 ELSE 1,
                                     IF o.ran THEN "plugin" ELSE "none",
                                     o.summary, o.err)

\* One run of the program on a command line.
Dispatch ==
    /\ host.pc = "started"
    /\ ~dispatch.done
    /\ \E argv \in Argvs, io \in {"ok", "error"} :
          dispatch' = ExecuteC(host.commands, argv, io)
    /\ UNCHANGED host
    /\ UNCHANGED buildVars
    /\ UNCHANGED invokeVars
    /\ UNCHANGED handlerVars
    /\ UNCHANGED managerVars

HostNext ==
    \/ loadPluginCommands
    \/ ReadRegistry
    \/ SelectLatest
    \/ LoadPluginConfig
    \/ BuildCommands
    \/ Return
    \/ MergePluginCommands
    \/ Dispatch

SpecHost == HostInit /\ [][HostNext]_vars

----------------------------------------------------------------------------
(* The managers: plugins.ConfigManager and git.RepoManager *)

MaxCalls == 4

\* The plugins.yml documents a Load may read: an empty file, and registries
\* of one and of two plugins.
Documents ==
    { [Plugins |-> <<>>, Settings |-> [DefaultLanguage |-> <<>>]],
      [Plugins  |-> Registry(1, <<SubSeq(VersionUniverse, 1, 1)>>, << <<>> >>),
       Settings |-> [DefaultLanguage |-> <<"e","n">>]],
      [Plugins  |-> Registry(2, <<SubSeq(VersionUniverse, 1, 2), SubSeq(VersionUniverse, 1, 1)>>,
                             << <<"p","k","g">>, <<>> >>),
       Settings |-> [DefaultLanguage |-> <<"i","t">>]] }

PluginNames == { PluginUniverse[1].Name, PluginUniverse[3].Name }

\* config := &PluginConfig{}; yaml.Unmarshal(data, config)
Unmarshal(document) ==
    [nil |-> FALSE, Plugins |-> document.Plugins, Settings |-> document.Settings]

ReadError(outcome) ==
    Errorf(IF outcome = "unreadable" THEN <<"f","a","i","l","e","d"," ","t","o"," ","r","e","a","d"," ","p","l","u","g","i","n","s",".","y","m","l">>
           ELSE <<"f","a","i","l","e","d"," ","t","o"," ","p","a","r","s","e"," ","p","l","u","g","i","n","s",".","y","m","l">>,
           Errorf(<<"i","o">>, <<>>))

\* ConfigManager.Load: the manager after the call and the error returned.
ConfigManager_Load_inplace(c, outcome, document) ==
    IF outcome = "unreadable" THEN [cm |-> c, err |-> ReadError(outcome)]
    ELSE IF outcome = "malformed"
    THEN [cm |-> [c EXCEPT !.config = Unmarshal([Plugins |-> <<>>,
                                                  Settings |-> [DefaultLanguage |-> <<>>]])],
          err |-> ReadError(outcome)]
    ELSE [cm |-> [c EXCEPT !.config = Unmarshal(document)], err |-> NoError]

ConfigManager_Load(c, outcome, document) ==
    IF outcome # "ok" THEN [cm |-> c, err |-> ReadError(outcome)]
    ELSE [cm |-> [c EXCEPT !.config = Unmarshal(document)], err |-> NoError]

ConfigManager_GetPlugins(c) ==
    IF c.config.nil THEN <<>> ELSE c.config.Plugins

ConfigNotLoaded == Errorf(<<"c","o","n","f","i","g"," ","n","o","t"," ","l","o","a","d","e","d">>, <<>>)

\* ConfigManager.GetPluginByName: the plugins of that name (none when the
\* pointer returned is nil, else the first of that name) and the error.
ConfigManager_GetPluginByName(c, name) ==
    IF c.config.nil THEN [plugin |-> <<>>, err |-> ConfigNotLoaded]
    ELSE IF \E i \in DOMAIN c.config.Plugins : c.config.Plugins[i].Name = name
    THEN LET i == CHOOSE k \in DOMAIN c.config.Plugins :
                     /\ c.config.Plugins[k].Name = name
                     /\ \A j \in 1..(k - 1) : c.config.Plugins[j].Name # name
         IN  [plugin |-> <<c.config.Plugins[i]>>, err |-> NoError]
    ELSE [plugin |-> <<>>, err |-> Errorf(<<"p","l","u","g","i","n"," ">> \o name \o <<" ","n","o","t"," ","f","o","u","n","d">>, <<>>)]

\* ConfigManager.GetSettings: no element when the pointer returned is nil.
ConfigManager_GetSettings(c) ==
    IF c.config.nil THEN <<>> ELSE <<c.config.Settings>>

ConfigInit ==
    /\ BuildIdle
    /\ InvokeIdle
    /\ HandlersIdle
    /\ HostIdle
    /\ ManagersIdle

OtherVarsUnchanged ==
    /\ UNCHANGED buildVars
    /\ UNCHANGED invokeVars
    /\ UNCHANGED handlerVars
    /\ UNCHANGED hostVars

Load ==
    /\ Len(calls) < MaxCalls
    /\ \E outcome \in {"ok", "unreadable", "malformed"}, document \in Documents :
          LET r == ConfigManager_Load(cm, outcome, document)
          IN  /\ cm' = r.cm
              /\ calls' = Append(calls, [op |-> "Load", before |-> cm.config,
                                         after |-> r.cm.config,
                                         read |-> IF outcome = "ok" THEN <<document>> ELSE <<>>,
                                         err |-> r.err])
    /\ UNCHANGED <<rm, repoDir>>
    /\ OtherVarsUnchanged

GetPlugins ==
    /\ Len(calls) < MaxCalls
    /\ calls' = Append(calls, [op |-> "GetPlugins", before |-> cm.config,
                               after |-> cm.config,
                               plugins |-> ConfigManager_GetPlugins(cm)])
    /\ UNCHANGED <<cm, rm, repoDir>>
    /\ OtherVarsUnchanged

GetPluginByName ==
    /\ Len(calls) < MaxCalls
    /\ \E name \in PluginNames :
          LET r == ConfigManager_GetPluginByName(cm, name)
          IN  calls' = Append(calls, [op |-> "GetPluginByName", before |-> cm.config,
                                      after |-> cm.config, name |-> name,
                                      plugin |-> r.plugin, err |-> r.err])
    /\ UNCHANGED <<cm, rm, repoDir>>
    /\ OtherVarsUnchanged

GetSettings ==
    /\ Len(calls) < MaxCalls
    /\ calls' = Append(calls, [op |-> "GetSettings", before |-> cm.config,
                               after |-> cm.config,
                               settings |-> ConfigManager_GetSettings(cm)])
    /\ UNCHANGED <<cm, rm, repoDir>>
    /\ OtherVarsUnchanged

ConfigNext ==
    \/ Load
    \/ GetPlugins
    \/ GetPluginByName
    \/ GetSettings

SpecConfig == ConfigInit /\ [][ConfigNext]_vars

\* What may be at repoPath when a RepoManager is made: nothing, the
\* repository cloned by an earlier run, or something that is no repository.
RepoDirs == {"nothing", "repository", "other"}

\* os.Stat(rm.repoPath) returns no error
Exists(dir) == dir.holds # "nothing"

\* RepoManager.Clone: the manager and the directory after the call and the
\* error returned. outcome is what git.PlainOpen or git.PlainClone gives,
\* left is what a failed PlainClone leaves at repoPath.
RepoManager_Clone(r, dir, outcome, left) ==
    IF Exists(dir)
    THEN IF dir.holds = "repository" /\ outcome = "ok"
         THEN [rm |-> [r EXCEPT !.repo = "repository"], dir |-> dir, err |-> NoError]
         ELSE [rm |-> r, dir |-> dir,
               err |-> Errorf(<<"f","a","i","l","e","d"," ","t","o"," ","o","p","e","n"," ","e","x","i","s","t","i","n","g"," ","r","e","p","o","s","i","t","o","r","y">>, Errorf(<<"g","i","t">>, <<>>))]
    ELSE IF outcome = "ok"
         THEN [rm |-> [r EXCEPT !.repo = "repository"],
               dir |-> [dir EXCEPT !.holds = "repository"], err |-> NoError]
         ELSE [rm |-> r, dir |-> [dir EXCEPT !.holds = left],
               err |-> Errorf(<<"f","a","i","l","e","d"," ","t","o"," ","c","l","o","n","e"," ","r","e","p","o","s","i","t","o","r","y">>, Errorf(<<"g","i","t">>, <<>>))]

\* What worktree.Pull may return.
PullResults == {"nil", "NoErrAlreadyUpToDate", "other"}

\* err != nil && err != git.NoErrAlreadyUpToDate
PullFailed_any(err) == err # "nil"

PullFailed(err) == err # "nil" /\ err # "NoErrAlreadyUpToDate"

NotInitialized == Errorf(<<"r","e","p","o","s","i","t","o","r","y"," ","n","o","t"," ","i","n","i","t","i","a","l","i","z","e","d">>, <<>>)

\* RepoManager.Pull: worktree is whether rm.repo.Worktree() gives one, err
\* is what worktree.Pull returns; pulls counts the calls of worktree.Pull.
RepoManager_Pull(r, dir, worktree, err) ==
    IF r.repo = "nil" THEN [rm |-> r, dir |-> dir, err |-> NotInitialized]
    ELSE IF ~worktree
    THEN [rm |-> r, dir |-> dir,
          err |-> Errorf(<<"f","a","i","l","e","d"," ","t","o"," ","g","e","t"," ","w","o","r","k","t","r","e","e">>, Errorf(<<"g","i","t">>, <<>>))]
    ELSE [rm |-> r, dir |-> [dir EXCEPT !.pulls = @ + 1],
          err |-> IF PullFailed(err)
                  THEN Errorf(<<"f","a","i","l","e","d"," ","t","o"," ","p","u","l","l"," ","r","e","p","o","s","i","t","o","r","y">>, Errorf(<<"g","i","t">>, <<>>))
                  ELSE NoError]

RepoInit ==
    /\ BuildIdle
    /\ InvokeIdle
    /\ HandlersIdle
    /\ HostIdle
    /\ cm = [config |-> NilConfig]
    /\ rm = [repo |-> "nil"]
    /\ \E holds \in RepoDirs : repoDir = [holds |-> holds, pulls |-> 0]
    /\ calls = <<>>

Clone ==
    /\ Len(calls) < MaxCalls
    /\ \E outcome \in {"ok", "failed"}, left \in {"nothing", "other"} :
          LET r == RepoManager_Clone(rm, repoDir, outcome, left)
          IN  /\ rm' = r.rm
              /\ repoDir' = r.dir
              /\ calls' = Append(calls, [op |-> "Clone", before |-> <<rm, repoDir>>,
                                         after |-> <<r.rm, r.dir>>,
                                         git |-> "none", err |-> r.err])
    /\ UNCHANGED cm
    /\ OtherVarsUnchanged

Pull ==
    /\ Len(calls) < MaxCalls
    /\ \E worktree \in BOOLEAN, err \in PullResults :
          LET r == RepoManager_Pull(rm, repoDir, worktree, err)
          IN  /\ rm' = r.rm
              /\ repoDir' = r.dir
              /\ calls' = Append(calls, [op |-> "Pull", before |-> <<rm, repoDir>>,
                                         after |-> <<r.rm, r.dir>>,
                                         git |-> IF r.dir = repoDir THEN "none" ELSE err,
                                         err |-> r.err])
    /\ UNCHANGED cm
    /\ OtherVarsUnchanged

RepoNext ==
    \/ Clone
    \/ Pull

SpecRepo == RepoInit /\ [][RepoNext]_vars

----------------------------------------------------------------------------
(* The built-in list command, run after package cmd's init has built the
   plugin commands from the same plugins.yml *)

\* The loop of listCmd's RunE over the plugins: the lines it prints, and
\* whether reading plugin.Versions[0] faulted. The registry records carry
\* no description.
RECURSIVE PrintPlugins(_)
PrintPlugins(plugins) ==
    IF plugins = <<>> THEN [status |-> "ok", lines |-> <<>>]
    ELSE LET plugin == Head(plugins)
             first  == << <<"N","a","m","e",":"," ">> \o plugin.Name, <<"D","e","s","c","r","i","p","t","i","o","n",":"," ">> >>
         IN  IF Len(plugin.Versions) = 0
             THEN [status |-> "panic", lines |-> first]
             ELSE LET r == PrintPlugins(Tail(plugins))
                  IN  [status |-> r.status,
                       lines  |-> first
                                  \o << <<"L","a","t","e","s","t"," ","V","e","r","s","i","o","n",":"," ">> \o plugin.Versions[1].Version,
                                        <<"U","U","I","D",":"," ">> \o plugin.UUID,
                                        <<"-","-","-","-","-","-","-","-","-","-","-","-","-","-","-","-","-">> >>
                                  \o r.lines]

\* listCmd's RunE: io is what the steps before the listing give ("ok", the
\* step of Preparation that fails, or the failure of ConfigManager.Load).
listCmd_RunE(io, document) ==
    IF io \in DOMAIN Preparation
    THEN [status |-> "error", lines |-> <<>>,
          err |-> Errorf(Preparation[io], Errorf(<<"i","o">>, <<>>))]
    ELSE LET l == ConfigManager_Load([config |-> NilConfig], io, document)
         IN  IF ~l.err.nil
             THEN [status |-> "error", lines |-> <<>>,
                   err |-> Errorf(<<"f","a","i","l","e","d"," ","t","o"," ","l","o","a","d"," ","p","l","u","g","i","n","s"," ","c","o","n","f","i","g","u","r","a","t","i","o","n">>, l.err)]
             ELSE LET plugins == ConfigManager_GetPlugins(l.cm)
                  IN  IF Len(plugins) = 0
                      THEN [status |-> "ok", lines |-> << <<"N","o"," ","p","l","u","g","i","n","s"," ","f","o","u","n","d">> >>,
                            err |-> NoError]
                      ELSE LET r == PrintPlugins(plugins)
                           IN  [status |-> r.status,
                                lines  |-> << <<"A","v","a","i","l","a","b","l","e"," ","p","l","u","g","i","n","s",":">>, <<"-","-","-","-","-","-","-","-","-","-","-","-","-","-","-","-","-">> >>
                                           \o r.lines,
                                err    |-> NoError]

\* wpcli list, once init's GetPluginCommands has returned: Execute exits
\* with 0, with 1 on an error, and the runtime with 2 on a fault.
RunList ==
    /\ pc = "done"
    /\ ~dispatch.done
    /\ \E io \in {"ok", "unreadable", "malformed"} \cup DOMAIN Preparation :
          LET r == listCmd_RunE(io, [Plugins |-> registry,
                                     Settings |-> [DefaultLanguage |-> <<>>]])
          IN  dispatch' = Dispatched(<< <<"l","i","s","t">> >>, <<2>>,
                                     IF r.status = "ok" THEN 0
                                     ELSE IF r.status = "error" THEN 1 ELSE 2,
                                     "builtin", Join(r.lines, <<"\n">>), r.err)
    /\ UNCHANGED host
    /\ UNCHANGED buildVars
    /\ UNCHANGED invokeVars
    /\ UNCHANGED handlerVars
    /\ UNCHANGED managerVars

ListNext ==
    \/ ReadRegistry
    \/ SelectLatest
    \/ LoadPluginConfig
    \/ BuildCommands
    \/ Return
    \/ RunList

SpecList == Init /\ [][ListNext]_vars

----------------------------------------------------------------------------
(* Properties of the build *)

VersionStrings(plugin) == { plugin.Versions[i].Version : i \in DOMAIN plugin.Versions }

\* The version record of a plugin whose string no other exceeds byte-wise.
LexicalMax(plugin) ==
    CHOOSE v \in { plugin.Versions[i] : i \in DOMAIN plugin.Versions } :
        \A i \in DOMAIN plugin.Versions : ~StrLess(v.Version, plugin.Versions[i].Version)

BuildSucceeded == pc = "done" /\ ret.returned /\ ret.err.nil

\* C1: once the latest version of the current plugin is selected, it is a
\* record of the plugin's list whose version string no other string of the
\* list exceeds under byte-wise comparison; for the strings 1.0, 2.0 and
\* 10.0, in whatever order the registry lists them, it is 2.0; and the
\* manifest read for the plugin is <uuid>/<that version>/<that record's conf>.
C1_LatestIsLexicalMax ==
    pc \in {"load", "build"} =>
        LET plugin == registry[idx]
        IN  /\ \E i \in DOMAIN plugin.Versions : plugin.Versions[i] = latestVersion
            /\ \A i \in DOMAIN plugin.Versions :
                  ~StrLess(latestVersion.Version, plugin.Versions[i].Version)
            /\ VersionStrings(plugin) = {<<"1",".","0">>, <<"2",".","0">>, <<"1","0",".","0">>}
                  => latestVersion = [Version |-> <<"2",".","0">>, Conf |-> <<"b",".","y","m","l">>]
            /\ pc = "build" =>
                  loads[Len(loads)].path =
                      <<plugin.UUID, latestVersion.Version, latestVersion.Conf>>

\* C1's case: the manifest of a plugin listing 10.0, 1.0, 2.0 has been read.
C1_Witness ==
    /\ pc = "build"
    /\ Len(registry[idx].Versions) = 3
    /\ registry[idx].Versions[1].Version = <<"1","0",".","0">>
    /\ registry[idx].Versions[2].Version = <<"1",".","0">>

\* The indices of the plugins declaring namespace ns, in registry order.
RECURSIVE Declaring(_, _)
Declaring(ns, i) ==
    IF i > Len(registry) THEN <<>>
    ELSE (IF registry[i].Subcommand = ns THEN <<i>> ELSE <<>>) \o Declaring(ns, i + 1)

\* The names of the manifest commands of the given plugins, in order.
RECURSIVE ManifestCommandNames(_)
ManifestCommandNames(is) ==
    IF is = <<>> THEN <<>>
    ELSE LET cmds == loads[Head(is)].manifest.Commands
         IN  [k \in DOMAIN cmds |-> cmds[k].Name] \o ManifestCommandNames(Tail(is))

ParentsOf(ns) ==
    { i \in DOMAIN ret.commands :
        ~ret.commands[i].Runnable /\ ret.commands[i].Use = ns }

\* C2: in the forest of a successful build every declared namespace has
\* exactly one parent command; its Short and Long name the first plugin of
\* the registry that declares the namespace, with that plugin's latest
\* version; and its children are the manifest commands of all the plugins
\* declaring the namespace, in registry order.
C2_OneParentPerNamespace ==
    BuildSucceeded =>
        \A ns \in Namespaces \ {<<>>} :
            LET is == Declaring(ns, 1)
            IN  IF is = <<>> THEN ParentsOf(ns) = {}
                ELSE /\ Cardinality(ParentsOf(ns)) = 1
                     /\ LET parent == ret.commands[CHOOSE i \in ParentsOf(ns) : TRUE]
                            first  == registry[Head(is)]
                            latest == LexicalMax(first)
                        IN  /\ parent.Short =
                                  <<"C","o","m","m","a","n","d","s"," ","f","o","r"," ">> \o ns \o <<" ","p","l","u","g","i","n","s"," ","(","f","r","o","m"," ">>
                                     \o first.Name \o <<" ","v">> \o latest.Version \o <<")">>
                            /\ parent.Long =
                                  <<"C","o","m","m","a","n","d","s"," ","f","o","r"," ">> \o ns \o <<" ","p","l","u","g","i","n","s","\n","\n","V","e","r","s","i","o","n",":"," ">>
                                     \o latest.Version \o <<"\n","\n","P","l","u","g","i","n",":"," ">> \o first.Name
                            /\ [k \in DOMAIN parent.children |-> parent.children[k].cmdName]
                                  = ManifestCommandNames(is)

\* C2's case: two plugins share a namespace and the later one has the
\* greater latest version.
C2_Witness ==
    /\ BuildSucceeded
    /\ Len(registry) = 2
    /\ registry[1].Subcommand = <<"p","k","g">>
    /\ registry[2].Subcommand = <<"p","k","g">>
    /\ LexicalMax(registry[1]).Version = <<"1",".","0">>
    /\ LexicalMax(registry[2]).Version = <<"2",".","0">>

\* C10: a manifest that cannot be read or parsed is the last one read; the
\* build has then returned no command and an error that names the plugin
\* and wraps the load error; and no error is ever returned with commands.
C10_FailFast ==
    /\ \A k \in DOMAIN loads :
          loads[k].outcome # "ok" =>
              /\ k = Len(loads)
              /\ pc = "done"
              /\ ret.returned
              /\ ~ret.err.nil
              /\ ret.commands = <<>>
              /\ ret.err.msg = <<"f","a","i","l","e","d"," ","t","o"," ","l","o","a","d"," ","p","l","u","g","i","n"," ","c","o","n","f","i","g"," ","f","o","r"," ">> \o registry[k].Name
              /\ ~ret.err.wraps.nil
              /\ ret.err.wraps.msg \in { <<"f","a","i","l","e","d"," ","t","o"," ","r","e","a","d"," ","p","l","u","g","i","n"," ","c","o","n","f","i","g">>,
                                         <<"f","a","i","l","e","d"," ","t","o"," ","p","a","r","s","e"," ","p","l","u","g","i","n"," ","c","o","n","f","i","g">> }
    /\ (ret.returned /\ ~ret.err.nil) => ret.commands = <<>>

\* C10's case: the second plugin's manifest fails to load after the first
\* plugin's commands were built.
C10_Witness ==
    /\ pc = "done"
    /\ Len(loads) = 2
    /\ loads[2].outcome = "malformed"
    /\ Len(rootCommands) > 0

\* What the forest holds at top level: for each entry, whether it is a
\* group parent, and its name.
TopLevel(commands) ==
    [k \in DOMAIN commands |->
        [parent |-> ~commands[k].Runnable,
         name   |-> IF commands[k].Runnable THEN commands[k].cmdName
                    ELSE commands[k].Use]]

\* What C19 expects at top level, from plugin i on: a parent where a
\* namespace is declared for the first time, the manifest commands of a
\* plugin without a namespace, and nothing for a namespace already seen.
RECURSIVE ExpectedTopLevel(_, _)
ExpectedTopLevel(i, seen) ==
    IF i > Len(registry) THEN <<>>
    ELSE LET ns   == registry[i].Subcommand
             cmds == loads[i].manifest.Commands
         IN  IF ns # <<>>
             THEN (IF ns \in seen THEN <<>> ELSE <<[parent |-> TRUE, name |-> ns]>>)
                     \o ExpectedTopLevel(i + 1, seen \cup {ns})
             ELSE [k \in DOMAIN cmds |-> [parent |-> FALSE, name |-> cmds[k].Name]]
                     \o ExpectedTopLevel(i + 1, seen)

\* C19: the forest of a successful build holds, in registry order, one
\* parent per namespace at the place of the first plugin declaring it and
\* the manifest commands of the plugins without a namespace, and nothing
\* else; the commands of a plugin with a namespace are not at top level.
C19_ForestShape ==
    BuildSucceeded => TopLevel(ret.commands) = ExpectedTopLevel(1, {})

\* C19's case: the first plugin declares a namespace and its manifest has
\* no commands, and the second plugin has none and its commands come after
\* the parent.
C19_Witness ==
    /\ BuildSucceeded
    /\ Len(registry) = 2
    /\ registry[1].Subcommand = <<"p","k","g">>
    /\ loads[1].empty
    /\ registry[2].Subcommand = <<>>
    /\ ~loads[2].empty
    /\ Len(ret.commands) = 2

\* C11: once the latest version of a plugin with an empty versions list has
\* been selected, the build has ended by returning an error; it has not
\* faulted.
C11_EmptyVersionsIsAnError ==
    (/\ idx \in DOMAIN registry
     /\ registry[idx].Versions = <<>>
     /\ pc \notin {"start", "select"})
        => (pc = "done" /\ ret.returned /\ ~ret.err.nil)

\* C21: no step of the build changes the registry: after it, successful or
\* failed, every plugin's versions list holds the elements it was loaded
\* with, in the order it was loaded with.
C21_RegistryReadOnly == [][registry' = registry]_vars

\* A build has returned its forest for a registry in which some plugin's
\* versions list is not in the order the sort leaves.
C21_Witness ==
    /\ BuildSucceeded
    /\ \E i \in DOMAIN registry :
          \E j, k \in DOMAIN registry[i].Versions :
             j < k /\ versionLess(registry[i].Versions[k], registry[i].Versions[j])

\* The commands built from manifests that the forest holds: the runnable
\* top-level entries and the children of the group parents.
BuiltCommands(commands) ==
    { commands[k] : k \in { j \in DOMAIN commands : commands[j].Runnable } }
        \cup UNION { { commands[k].children[c] : c \in DOMAIN commands[k].children } :
                     k \in DOMAIN commands }

\* The plugins whose loaded manifest declares a command of this name.
Owners(cmd) ==
    { i \in DOMAIN loads :
        \E k \in DOMAIN loads[i].manifest.Commands :
           loads[i].manifest.Commands[k].Name = cmd.cmdName }

\* C22: in the forest of a successful build, every command built from a
\* manifest, at top level or under a group parent, has a short description
\* that ends with "(from <plugin> v<version>)" and a long description that
\* ends with "Plugin: <plugin>" and "Version: <version>", for the plugin
\* that declares the command and the version selected for it.
C22_ShortAndLongAnnotated ==
    BuildSucceeded =>
        \A cmd \in BuiltCommands(ret.commands) :
           \E i \in Owners(cmd) :
              /\ HasSuffix(cmd.Short, FromPlugin(registry[i], LexicalMax(registry[i])))
              /\ HasSuffix(cmd.Long, PluginAndVersion(registry[i], LexicalMax(registry[i])))

----------------------------------------------------------------------------
(* Properties of an invocation *)

\* The text of s before its first "=".
RECURSIVE BeforeEquals(_)
BeforeEquals(s) ==
    IF s = <<>> \/ Head(s) = "=" THEN <<>>
    ELSE <<Head(s)>> \o BeforeEquals(Tail(s))

\* The names of the flags a summary shows, in the order it shows them.
RECURSIVE FlagNamesOf(_)
FlagNamesOf(words) ==
    IF words = <<>> THEN <<>>
    ELSE (IF HasPrefix(Head(words), <<"-","-">>)
          THEN <<BeforeEquals(SubSeq(Head(words), 3, Len(Head(words))))>>
          ELSE <<>>) \o FlagNamesOf(Tail(words))

SuppliedNames == [i \in DOMAIN inv.supplied |-> inv.supplied[i].Name]

RequiredDeclared ==
    Cardinality({ i \in DOMAIN cmdConfig.Args : cmdConfig.Args[i].Required })

\* C3: with N the number of declared arguments marked required, an
\* invocation whose flags parse fails in the argument validator, with
\* "requires at least N argument(s)", exactly when it has fewer than N
\* positional arguments.
C3_RequiredArgumentGate ==
    (inv.done /\ inv.stage # "parse") =>
        IF Len(inv.args) < RequiredDeclared
        THEN /\ inv.stage = "args"
             /\ inv.err.msg =
                   <<"r","e","q","u","i","r","e","s"," ","a","t"," ","l","e","a","s","t"," ">> \o Itoa(RequiredDeclared) \o <<" ","a","r","g","u","m","e","n","t","(","s",")">>
        ELSE inv.stage # "args"

\* C3's cases: one positional argument against two required ones.
C3_Witness ==
    /\ inv.done
    /\ inv.stage = "args"
    /\ RequiredDeclared = 2
    /\ Len(inv.args) = 1

TheExample ==
    /\ inv.ran
    /\ cmdConfig = InstallConfig
    /\ inv.args = << <<"m","y","-","p","a","c","k","a","g","e">> >>
    /\ inv.supplied = << [Name |-> <<"v","e","r","s","i","o","n">>, Value |-> <<"1",".","2",".","3">>],
                         [Name |-> <<"f","o","r","c","e">>, Value |-> <<"t","r","u","e">>] >>

Rendering(f) ==
    IF FlagType(built.cmd, f.Name) = "bool"
    THEN <<"-","-">> \o f.Name
    ELSE <<"-","-">> \o f.Name \o <<"=">> \o f.Value

\* C5: the summary of a successful invocation is the command's name, the
\* positional arguments in order and one rendering per supplied flag
\* (--name for a bool flag, --name=value otherwise), joined by single
\* spaces, hence with no empty part and no trailing space.
C5_SingleSpaces ==
    inv.ran =>
        \E order \in SeqPermutations(inv.supplied) :
            inv.summary =
                Join(<<cmdConfig.Name>> \o inv.args
                        \o [i \in DOMAIN order |-> Rendering(order[i])],
                     <<" ">>)

DeclaresValues(name) ==
    \E i \in DOMAIN cmdConfig.Flags :
        /\ flagName(cmdConfig.Flags[i]) = name
        /\ cmdConfig.Flags[i].valid_values # <<>>

ValidFor(name, value) ==
    \A i \in DOMAIN cmdConfig.Flags :
        (flagName(cmdConfig.Flags[i]) = name /\ cmdConfig.Flags[i].valid_values # <<>>)
            => \E k \in DOMAIN cmdConfig.Flags[i].valid_values :
                  cmdConfig.Flags[i].valid_values[k] = value

\* C8: a flag the invoker did not supply is not checked against its valid
\* values: an invocation that supplies no flag declaring valid values does
\* not fail in pre-execution validation.
C8_UnsuppliedExempt ==
    (inv.done /\ \A i \in DOMAIN inv.supplied : ~DeclaresValues(inv.supplied[i].Name))
        => inv.stage # "prerun"

\* C9: an invocation that passes parsing and the argument check and
\* supplies, for a flag declaring valid values, a value outside them fails
\* and prints no summary; one whose supplied values are all among the
\* declared ones, for every flag that declares any, passes pre-execution
\* validation.
C9_ValidValuesEnforced ==
    (inv.done /\ inv.stage \notin {"parse", "args"}) =>
        /\ (\E i \in DOMAIN inv.supplied :
                ~ValidFor(inv.supplied[i].Name, inv.supplied[i].Value))
              => (~inv.ran /\ ~inv.err.nil)
        /\ ( /\ \A i \in DOMAIN inv.supplied :
                    ValidFor(inv.supplied[i].Name, inv.supplied[i].Value)
             /\ \A i \in DOMAIN cmdConfig.Flags :
                    cmdConfig.Flags[i].valid_values # <<>>
                        => IsSupplied(inv.supplied, flagName(cmdConfig.Flags[i])) )
              => inv.stage # "prerun"

\* C17: every flag the manifest declares for the command, of whatever kind
\* and required or not, is on the built command's flag set, in declaration
\* order, and building the command succeeds.
C17_EveryFlagAttached ==
    built.status \notin {"idle", "none"} =>
        /\ built.status = "ok"
        /\ [i \in DOMAIN built.cmd.flags |-> built.cmd.flags[i].Name]
              = [i \in DOMAIN cmdConfig.Flags |-> flagName(cmdConfig.Flags[i])]

\* C20: the execution action runs, and a summary exists, only when the
\* argument validator, the pre-execution validation and the required-flag
\* check have all passed; an invocation that one of them fails ends at that
\* stage with its error and without a summary.
C20_ValidationBeforeExecution ==
    inv.done =>
        /\ inv.ran <=> (/\ ParseFlags(built.cmd, inv.supplied).nil
                        /\ Args(built.cmd, inv.args).nil
                        /\ PreRunE(built.cmd, inv.supplied).nil
                        /\ ValidateRequiredFlags(built.cmd, inv.supplied).nil)
        /\ ~Args(built.cmd, inv.args).nil => inv.stage \in {"parse", "args"}
        /\ (Args(built.cmd, inv.args).nil /\ ~PreRunE(built.cmd, inv.supplied).nil)
              => inv.stage \in {"parse", "prerun"}
        /\ ~inv.ran => (inv.summary = <<>> /\ ~inv.err.nil)
        /\ inv.ran => (inv.err.nil /\ inv.summary # <<>>)

\* C20's cases: an invocation that passes the argument validator and fails
\* the pre-execution validation.
C20_Witness ==
    /\ inv.done
    /\ inv.stage = "prerun"
    /\ Len(inv.args) > 0
    /\ ~inv.ran

----------------------------------------------------------------------------
(* Properties of handler resolution *)

RecognizedKinds == { <<"s","t","r","i","n","g">>, <<"b","o","o","l">>, <<"i","n","t">>, <<"e","n","u","m">> }

\* C6: whatever the declared kind, a flag with a non-empty valid_values
\* list resolves to the Enum handler, under flags.GetHandler and under
\* plugins.GetFlagHandler.
C6_EnumOverride ==
    (hres.done /\ Len(hflag.ValidValues) > 0) =>
        /\ hres.GetHandler = "EnumFlagHandler"
        /\ hres.GetFlagHandler.handler = "EnumFlagHandler"
        /\ hres.GetFlagHandler.err.nil

----------------------------------------------------------------------------
(* Properties of the host *)

LoadFailed ==
    /\ host.pc = "started"
    /\ \/ ~host.err.nil
       \/ (ret.returned /\ ~ret.err.nil)

\* C12: when loadPluginCommands has failed, in the build or in a step
\* before it, init has ended with the built-in commands alone on the root
\* and with the warning written, and start-up has gone on.
C12_FailedLoadKeepsBuiltins ==
    /\ LoadFailed =>
          /\ host.commands = Builtins
          /\ ~host.err.nil
          /\ host.warning =
                <<"W","a","r","n","i","n","g",":"," ","f","a","i","l","e","d"," ","t","o"," ","l","o","a","d"," ","p","l","u","g","i","n"," ","c","o","m","m","a","n","d","s",":"," ">> \o ErrorText(host.err) \o <<"\n">>
    /\ (pc = "done" /\ ret.returned /\ ~ret.err.nil /\ host.pc # "building")
          => host.pc = "started"
    /\ (host.pc = "started" /\ host.warning = <<>> /\ pc = "done")
          => (ret.returned /\ ret.err.nil)

\* C12's case: the build failed on the second plugin's manifest after the
\* first plugin's commands were built, and init has ended.
C12_Witness ==
    /\ host.pc = "started"
    /\ ret.returned
    /\ ~ret.err.nil
    /\ Len(loads) = 2
    /\ Len(rootCommands) > 0

\* The root commands the token names.
Named(token) ==
    { k \in DOMAIN host.commands : Name(host.commands[k].Use) = token }

\* C18: a command line whose first token names no command of the root ends
\* with exit code 1; one whose first token names a group parent and whose
\* second token names none of the parent's children ends with exit code 0,
\* and no command's execution action has run.
C18_UnknownNames ==
    dispatch.done =>
        /\ (dispatch.argv # <<>> /\ Named(dispatch.argv[1]) = {})
              => (dispatch.exit = 1 /\ dispatch.ran = "none" /\ ~dispatch.err.nil)
        /\ \A k \in DOMAIN host.commands :
              (/\ Len(dispatch.argv) >= 2
               /\ k \in Named(dispatch.argv[1])
               /\ ~host.commands[k].Runnable
               /\ \A c \in DOMAIN host.commands[k].children :
                     Name(host.commands[k].children[c].Use) # dispatch.argv[2])
                  => (/\ dispatch.exit = 0
                      /\ dispatch.ran \notin {"plugin", "builtin"}
                      /\ dispatch.summary = <<>>)

\* C18's case: pkg invalid-subcommand, where pkg is a parent with children.
C18_Witness ==
    /\ dispatch.done
    /\ dispatch.argv = << <<"p","k","g">>, <<"i","n","v","a","l","i","d","-","s","u","b","c","o","m","m","a","n","d">> >>
    /\ \E k \in Named(<<"p","k","g">>) : Len(host.commands[k].children) > 0
    /\ dispatch.exit = 0

----------------------------------------------------------------------------
(* Properties of validation and registration *)

\* The verdict C13 describes: the flag's default stands in for an empty
\* value when the default is not empty, and the value is then among the
\* valid values.
C13_Verdict ==
    LET v == IF hargs.value = <<>> /\ hflag.Default # <<>>
             THEN hflag.Default ELSE hargs.value
    IN  \E i \in DOMAIN hflag.ValidValues : hflag.ValidValues[i] = v

\* C13: for a flag with valid values, the Enum handlers of both packages
\* and Flag.IsValidValue accept the value exactly when, the default having
\* replaced an empty value, it is among the valid values.
C13_DefaultThenMembership ==
    (hres.done /\ Len(hflag.ValidValues) > 0) =>
        /\ hres.ValidateValue["EnumFlagHandler"].nil <=> C13_Verdict
        /\ hres.plugins_ValidateValue["EnumFlagHandler"].nil <=> C13_Verdict
        /\ hres.IsValidValue <=> C13_Verdict

\* C13's case: an empty value and a default that is not among the valid
\* values.
C13_Witness ==
    /\ hres.done
    /\ hargs.value = <<>>
    /\ hflag.Default = <<"a">>
    /\ hflag.ValidValues = << <<"7">> >>
    /\ ~hres.IsValidValue

\* C14: with no valid values every handler of both packages accepts every
\* value.
C14_NoValuesNoCheck ==
    (hres.done /\ hflag.ValidValues = <<>>) =>
        \A h \in HandlerNames :
            /\ hres.ValidateValue[h].nil
            /\ hres.plugins_ValidateValue[h].nil

\* The description of the flag in a language, empty when it has none.
DescriptionIn(lang) == IF lang \in DOMAIN hflag.Description THEN hflag.Description[lang] ELSE <<>>

Describes(lang) == lang \in DOMAIN hflag.Description

\* C15 as stated: the description is the one in the requested language,
\* else the one in "en", else the one under "default".
C15_RequestedThenEnThenDefault ==
    hres.done =>
        hres.GetDescription =
            (IF Describes(hargs.lang) THEN DescriptionIn(hargs.lang)
             ELSE IF Describes(<<"e","n">>) THEN DescriptionIn(<<"e","n">>)
             ELSE DescriptionIn(<<"d","e","f","a","u","l","t">>))

\* C15 as amended: Flag.GetDescription gives the description in the
\* requested language when the flag has one, else the one under "default",
\* without trying "en"; the handlers of package flags register the flag
\* with GetDescription("en"), and those of package plugins with the "en"
\* description unless it is empty, and then with the one under "default".
C15_RequestedThenDefault ==
    hres.done =>
        /\ hres.GetDescription =
              (IF Describes(hargs.lang) THEN DescriptionIn(hargs.lang)
               ELSE DescriptionIn(<<"d","e","f","a","u","l","t">>))
        /\ (hres.AddFlags.status = "ok" /\ hflag.ValidValues = <<>>) =>
              hres.AddFlags.flags[1].Usage =
                  (IF Describes(<<"e","n">>) THEN DescriptionIn(<<"e","n">>)
                   ELSE DescriptionIn(<<"d","e","f","a","u","l","t">>))
        /\ hres.plugins_description =
              (IF DescriptionIn(<<"e","n">>) # <<>> THEN DescriptionIn(<<"e","n">>)
               ELSE DescriptionIn(<<"d","e","f","a","u","l","t">>))

\* C15's case: a description is asked for in "it" of a flag described in
\* "en" and under "default" but not in "it".
C15_Witness ==
    /\ hres.done
    /\ hargs.lang = <<"i","t">>
    /\ ~Describes(<<"i","t">>)
    /\ DescriptionIn(<<"e","n">>) = <<"e">>
    /\ Describes(<<"d","e","f","a","u","l","t">>)

\* C16: for a flag of any kind with a default and with valid values,
\* AddFlags returns an error, and registers nothing, when the default is
\* not among the valid values.
C16_DefaultAmongValidValues ==
    (/\ hres.done
     /\ hflag.Default # <<>>
     /\ Len(hflag.ValidValues) > 0
     /\ ~\E i \in DOMAIN hflag.ValidValues : hflag.ValidValues[i] = hflag.Default)
        => (hres.AddFlags.status = "error" /\ ~hres.AddFlags.err.nil)

\* C23: for an int flag with valid values, each IntFlagHandler answers a
\* value that does not scan as a decimal integer with "invalid integer
\* value", and the handler of package flags and the handler of package
\* plugins accept the same values.
C23_IntHandlersAgree ==
    (hres.done /\ Len(hflag.ValidValues) > 0) =>
        /\ ~Sscanf(hargs.value).ok =>
              /\ hres.ValidateValue["IntFlagHandler"] = InvalidInteger(hflag, hargs.value)
              /\ hres.plugins_ValidateValue["IntFlagHandler"] = InvalidInteger(hflag, hargs.value)
        /\ hres.ValidateValue["IntFlagHandler"].nil
              <=> hres.plugins_ValidateValue["IntFlagHandler"].nil

----------------------------------------------------------------------------
(* Properties of the managers *)

\* Whether a Load has succeeded among the calls before the k-th.
LoadedBefore(k) ==
    \E j \in 1..(k - 1) : calls[j].op = "Load" /\ calls[j].err.nil

\* The document read by the last Load that succeeded before the k-th call.
LastLoaded(k) ==
    LET j == CHOOSE i \in 1..(k - 1) :
                /\ calls[i].op = "Load" /\ calls[i].err.nil
                /\ \A h \in (i + 1)..(k - 1) : ~(calls[h].op = "Load" /\ calls[h].err.nil)
    IN  calls[j].read[1]

\* C24: in every sequence of calls on a ConfigManager, a getter called
\* before any Load has succeeded answers as an unloaded manager does
\* (no plugins, "config not loaded", nil settings); a Load that fails
\* leaves the configuration as it was; and GetPlugins after a successful
\* Load answers with the plugins of the last document loaded, whatever
\* Loads have failed since.
C24_LoadGatesAndFailureKeeps ==
    \A k \in DOMAIN calls :
       LET c == calls[k]
       IN  /\ (c.op = "GetPlugins" /\ ~LoadedBefore(k)) => c.plugins = <<>>
           /\ (c.op = "GetPluginByName" /\ ~LoadedBefore(k)) =>
                 (c.plugin = <<>> /\ c.err = ConfigNotLoaded)
           /\ (c.op = "GetSettings" /\ ~LoadedBefore(k)) => c.settings = <<>>
           /\ (c.op = "Load" /\ ~c.err.nil) => c.after = c.before
           /\ (c.op = "GetPlugins" /\ LoadedBefore(k)) =>
                 c.plugins = LastLoaded(k).Plugins

\* A registry is loaded, a later Load fails on a malformed file, and
\* GetPlugins still answers with the plugins loaded first.
C24_Witness ==
    /\ Len(calls) >= 3
    /\ calls[1].op = "Load" /\ calls[1].err.nil /\ calls[1].read[1].Plugins # <<>>
    /\ calls[2].op = "Load" /\ calls[2].err = ReadError("malformed")
    /\ calls[3].op = "GetPlugins" /\ calls[3].plugins = calls[1].read[1].Plugins

\* Whether a Clone has succeeded among the calls before the k-th.
ClonedBefore(k) ==
    \E j \in 1..(k - 1) : calls[j].op = "Clone" /\ calls[j].err.nil

\* C25: in every sequence of calls on a RepoManager, a Pull that no
\* successful Clone precedes returns "repository not initialized" and
\* changes neither the manager nor the directory, and no other Pull
\* returns that error; a Clone that fails on an uninitialized manager
\* leaves it uninitialized; and a Pull whose worktree.Pull answers
\* NoErrAlreadyUpToDate returns no error.
C25_CloneBeforePull ==
    \A k \in DOMAIN calls :
       LET c == calls[k]
       IN  /\ (c.op = "Pull" /\ ~ClonedBefore(k)) =>
                 (c.err = NotInitialized /\ c.after = c.before)
           /\ (c.op = "Pull" /\ ClonedBefore(k)) => c.err # NotInitialized
           /\ (c.op = "Clone" /\ ~c.err.nil) => c.after[1] = c.before[1]
           /\ (c.op = "Clone" /\ ~c.err.nil /\ ~ClonedBefore(k)) =>
                 c.after[1].repo = "nil"
           /\ (c.op = "Pull" /\ c.git = "NoErrAlreadyUpToDate") => c.err.nil

\* A Clone fails, the Pull after it is refused, a second Clone succeeds,
\* and the Pull after that finds the repository up to date.
C25_Witness ==
    /\ Len(calls) = 4
    /\ calls[1].op = "Clone" /\ ~calls[1].err.nil
    /\ calls[2].op = "Pull" /\ calls[2].err = NotInitialized
    /\ calls[3].op = "Clone" /\ calls[3].err.nil
    /\ calls[4].op = "Pull" /\ calls[4].git = "NoErrAlreadyUpToDate" /\ calls[4].err.nil

----------------------------------------------------------------------------
(* Properties of the merge into the root command *)

\* The first token of a command's usage.
Token(cmd) == Fields(cmd.Use)[1]

\* The build has returned its forest and the merge has completed.
Merged == host.pc = "started" /\ ret.returned /\ ret.err.nil

\* The commands of the forest whose first usage token is neither that of a
\* built-in nor that of a command earlier in the forest.
Kept(forest) ==
    { k \in DOMAIN forest :
        /\ \A b \in DOMAIN Builtins : Token(Builtins[b]) # Token(forest[k])
        /\ \A j \in 1..(k - 1) : Token(forest[j]) # Token(forest[k]) }

\* C26: after the merge no two children of the root share a first usage
\* token, the built-ins are where and what they were, and the commands
\* added are those of the forest whose first usage token was not on the
\* root already, as a built-in or as a command of the forest merged earlier.
C26_MergeNeverReplaces ==
    Merged =>
        /\ \A i, j \in DOMAIN host.commands :
              i # j => Token(host.commands[i]) # Token(host.commands[j])
        /\ SubSeq(host.commands, 1, Len(Builtins)) = Builtins
        /\ { host.commands[i] : i \in (Len(Builtins) + 1)..Len(host.commands) }
              = { ret.commands[k] : k \in Kept(ret.commands) }

\* The forest holds a command whose token is a built-in's and two commands
\* that share a token; the merge has added two of its four commands.
C26_Witness ==
    /\ Merged
    /\ Len(ret.commands) = 4
    /\ Len(host.commands) = Len(Builtins) + 2
    /\ \E k \in DOMAIN ret.commands : Token(ret.commands[k]) = Token(listCmd)
    /\ \E j, k \in DOMAIN ret.commands :
          j < k /\ Token(ret.commands[j]) = Token(ret.commands[k])

\* C28: whatever forest a successful build has returned, the merge does
\* not fault.
C28_MergeNeverFaults ==
    (ret.returned /\ ret.err.nil) => host.pc # "panic"

----------------------------------------------------------------------------
(* Properties of the list command *)

\* The lines of a text.
RECURSIVE Lines(_)
Lines(text) ==
    IF \E i \in DOMAIN text : text[i] = "\n"
    THEN LET i == CHOOSE k \in DOMAIN text :
                     text[k] = "\n" /\ \A j \in 1..(k - 1) : text[j] # "\n"
         IN  <<SubSeq(text, 1, i - 1)>> \o Lines(SubSeq(text, i + 1, Len(text)))
    ELSE <<text>>

\* The versions a listing shows as latest, in the order it shows them.
RECURSIVE LatestVersionsShown(_)
LatestVersionsShown(lines) ==
    IF lines = <<>> THEN <<>>
    ELSE (IF HasPrefix(Head(lines), <<"L","a","t","e","s","t"," ","V","e","r","s","i","o","n",":"," ">>)
          THEN <<SubSeq(Head(lines), 17, Len(Head(lines)))>>
          ELSE <<>>) \o LatestVersionsShown(Tail(lines))

\* C27: when the list command has printed its listing, the version it
\* shows as latest for a plugin is the version whose manifest the builder
\* loaded for that plugin.
C27_ListShowsSelectedVersion ==
    (dispatch.done /\ dispatch.exit = 0) =>
        \A i \in DOMAIN loads :
           LatestVersionsShown(Lines(dispatch.summary))[i] = loads[i].path[2]

====
